---------------------------- MODULE Spec2Model ----------------------------
(***************************************************************************)
(* Omi card game server (src/index.js): the room registry, the room phase  *)
(* state machine, seating and reconnection, dealing, the follow-suit rule, *)
(* trick resolution and scoring, as a state machine over the socket events *)
(* joinRoom, selectTrump, playCard, disconnect, the health sweep and the   *)
(* deferred (setTimeout) callbacks.                                        *)
(***************************************************************************)
EXTENDS Integers, Sequences, FiniteSets, TLC

(***************************************************************************)
(* Bounds of the model (not program constants).                            *)
(***************************************************************************)
\* Rooms ids that clients name in their events.
NumRooms == 2
\* Connections (socket ids) that ever exist.
MaxSockets == 6
\* Display names that clients use.
NumNames == 4
\* Successful joinRoom events of a run.
MaxJoins == 6
\* Successful joins of a run to a room other than room 1.
MaxAwayJoins == 1
\* Connections (the lowest-numbered) that join rooms other than room 1.
NumRoamers == 1
\* Disconnect events of a run.
MaxDisconnects == 2
\* Off-script events of a run: disconnects, joins to a room other than
\* room 1, and plays that are not the lowest legal slot. An event that the
\* server rejects is sent while the run has an off-script event to spare.
MaxFaults == 2
\* Accepted selectTrump events of a run.
MaxTrumps == 1
\* Accepted playCard events of a run.
MaxPlays == 5
\* Accepted plays of a run that are not the lowest legal slot of the hand.
MaxFreePlays == 1
\* Suits (the first ones of the list) that clients choose as trump.
NumTrumpSuits == 1
\* Deck orders that shuffleDeck may produce.
NumDecks == 1
\* Pure-function check of the card rules: slots of a hand, entries of a
\* trick, and the cards they are drawn from.
MaxHandLen == 3
MaxTrickLen == 3
PoolSize == 4
\* Pure-function check of trick resolution: the cards the four entries of a
\* trick are drawn from.
TrickPoolSize == 8
\* Check of the scoring rules: deals scored in one match.
MaxDeals == 4

(***************************************************************************)
(* Program constants.                                                      *)
(***************************************************************************)
suits == <<"Hearts", "Diamonds", "Clubs", "Spades">>
ranks == <<"7", "8", "9", "10", "J", "Q", "K", "A">>
Suits == {suits[i] : i \in 1..Len(suits)}
TEAM_POSITIONS == [A |-> <<0, 2>>, B |-> <<1, 3>>]
NumSeats == 4
SelectorCards == 4
HandSize == 8
tricksExpected == 8
targetScore == 10
TrumpBonus == 10

Seats == 0..(NumSeats - 1)
RoomIds == 1..NumRooms
Sockets == 1..MaxSockets
Names == 1..NumNames
Teams == {"A", "B"}

\* JavaScript null in a hand slot, and null / undefined as a trump value.
Null == -1
NullTrump == "null"
UndefinedTrump == "undefined"

(***************************************************************************)
(* Card rule engine.                                                       *)
(***************************************************************************)
\* A card { suit, rank } is the number of its place in createDeck's order
\* (suits outer, ranks inner), from 0.
Card(suit, rank) ==
    LET si == CHOOSE i \in 1..Len(suits) : suits[i] = suit
        ri == CHOOSE i \in 1..Len(ranks) : ranks[i] = rank
    IN  (si - 1) * Len(ranks) + (ri - 1)
SuitOf(card) == suits[(card \div Len(ranks)) + 1]
RankOf(card) == ranks[(card % Len(ranks)) + 1]

createDeck == [i \in 1..(Len(suits) * Len(ranks)) |-> i - 1]

Cards == {createDeck[i] : i \in 1..Len(createDeck)}

rankValues(rank) ==
    CASE rank = "7" -> 1 [] rank = "8" -> 2 [] rank = "9" -> 3
      [] rank = "10" -> 4 [] rank = "J" -> 5 [] rank = "Q" -> 6
      [] rank = "K" -> 7 [] rank = "A" -> 8

getCardValue(card, trump) ==
    rankValues(RankOf(card)) + (IF SuitOf(card) = trump THEN TrumpBonus ELSE 0)

\* The 0-based indices, ascending, of the slots of hand that pass Test.
IndicesWhere(hand, Test(_)) ==
    LET F[k \in 0..Len(hand)] ==
            IF k = 0 THEN <<>>
            ELSE IF Test(hand[k]) THEN Append(F[k - 1], k - 1) ELSE F[k - 1]
    IN  F[Len(hand)]

IsLeadSuitCard(c, leadSuit) == c # Null /\ SuitOf(c) = leadSuit

isValidPlay(card, hand, currentTrick, trump) ==
    IF Len(currentTrick) = 0 THEN TRUE
    ELSE LET leadSuit == SuitOf(currentTrick[1].card)
             cardsOfLeadSuit == SelectSeq(hand, LAMBDA c : IsLeadSuitCard(c, leadSuit))
         IN  IF Len(cardsOfLeadSuit) > 0 THEN SuitOf(card) = leadSuit ELSE TRUE

\* Variant: a trump card is playable as well as the lead-suit cards.
getPlayableCardsOrTrump(hand, currentTrick, trump) ==
    IF Len(currentTrick) = 0
    THEN IndicesWhere(hand, LAMBDA c : c # Null)
    ELSE LET leadSuit == SuitOf(currentTrick[1].card)
             leadSuitCardIndices ==
                 IndicesWhere(hand, LAMBDA c : IsLeadSuitCard(c, leadSuit)
                                               \/ (c # Null /\ SuitOf(c) = trump))
         IN  IF Len(leadSuitCardIndices) > 0
             THEN leadSuitCardIndices
             ELSE IndicesWhere(hand, LAMBDA c : c # Null)

getPlayableCards(hand, currentTrick, trump) ==
    IF Len(currentTrick) = 0
    THEN IndicesWhere(hand, LAMBDA c : c # Null)
    ELSE LET leadSuit == SuitOf(currentTrick[1].card)
             leadSuitCardIndices == IndicesWhere(hand, LAMBDA c : IsLeadSuitCard(c, leadSuit))
         IN  IF Len(leadSuitCardIndices) > 0
             THEN leadSuitCardIndices
             ELSE IndicesWhere(hand, LAMBDA c : c # Null)

\* reduce((highest, current) => value(current) > value(highest) ? current : highest)
HighestOf(entries, trump) ==
    LET F[k \in 1..Len(entries)] ==
            IF k = 1 THEN entries[1]
            ELSE IF getCardValue(entries[k].card, trump) > getCardValue(F[k - 1].card, trump)
                 THEN entries[k] ELSE F[k - 1]
    IN  F[Len(entries)]

\* Variant: the highest-valued card of the trick wins, whatever its suit.
getTrickWinnerHighestCard(trick, trump) == HighestOf(trick, trump)

getTrickWinner(trick, trump) ==
    LET leadSuit == SuitOf(trick[1].card)
        trumpCards == SelectSeq(trick, LAMBDA t : SuitOf(t.card) = trump)
    IN  IF Len(trumpCards) > 0
        THEN HighestOf(trumpCards, trump)
        ELSE HighestOf(SelectSeq(trick, LAMBDA t : SuitOf(t.card) = leadSuit), trump)

\* Variant: seats 0 and 1 are team A, seats 2 and 3 team B.
getTeamForPositionInPairs(position) == IF position < 2 THEN "A" ELSE "B"

getTeamForPosition(position) ==
    IF \E k \in 1..Len(TEAM_POSITIONS.A) : TEAM_POSITIONS.A[k] = position
    THEN "A" ELSE "B"


(***************************************************************************)
(* State.                                                                  *)
(***************************************************************************)
VARIABLES
    rooms,          \* the registry: room id -> room (live = it is in the Map)
    playerSockets,  \* socket id -> room id (0 = no entry)
    sockOpen,       \* socket id -> the connection is open
    timers,         \* room id -> the setTimeout callbacks pending, oldest first
    out,            \* the notifications of the last event that was not rejected
    err,            \* the error reply to the last event, when it was rejected
    pausedFrom,     \* history: room id -> the phase the room was paused in
    leftAt,         \* history: room id -> seat -> what the seat and its room
                    \* held just before the seat's player disconnected
    used,           \* how much of each bound of the model the run has used
    phand, ptrick, ptrump, presult,  \* inputs and result of the card rules
    proom,          \* the room the scoring rules are applied to, in a 1-tuple
    pdeals          \* history: the awards of the deals scored on proom

scoreVars == <<proom, pdeals>>
pureVars == <<phand, ptrick, ptrump, presult, proom, pdeals>>
vars == <<rooms, playerSockets, sockOpen, timers, out, err, pausedFrom, leftAt, used,
          phand, ptrick, ptrump, presult, proom, pdeals>>

MAX_ROOMS == 100
RoomCast == 0

\* An empty seat (null in room.players).
NoPlayer ==
    [occ |-> FALSE, id |-> 0, name |-> 0, team |-> "none", hand |-> <<>>,
     connected |-> FALSE, stale |-> FALSE]

\* The room object initializeRoom returns; idle abstracts
\* Date.now() - lastActivity > 2 minutes, and a seat's stale abstracts
\* Date.now() - lastSeen > PLAYER_TIMEOUT.
initializeRoom ==
    [live |-> TRUE,
     players |-> [i \in Seats |-> NoPlayer],
     gameState |-> "waiting",
     deck |-> <<>>,
     trump |-> NullTrump,
     trumpSelector |-> -1,
     currentPlayerIndex |-> 0,
     currentTrick |-> <<>>,
     tricksWon |-> [i \in Seats |-> 0],
     scores |-> [teamA |-> 0, teamB |-> 0],
     lastTrickWinner |-> -1,
     idle |-> FALSE]

\* A room id the Map has no entry for.
NoRoom == [initializeRoom EXCEPT !.live = FALSE]

Msg(to, ev, msg) == [to |-> to, ev |-> ev, msg |-> msg, st |-> "", turn |-> FALSE, cards |-> <<>>]
TurnMsg(to, cards) == [to |-> to, ev |-> "yourTurn", msg |-> "", st |-> "", turn |-> TRUE, cards |-> cards]

\* Array.prototype.findIndex over the four seats: -1 when none passes.
FindIndex(players, Test(_)) ==
    LET found == {i \in Seats : Test(players[i])} IN
    IF found = {} THEN -1
    ELSE CHOOSE i \in found : \A j \in found : i <= j

ConnectedCount(room) == Cardinality({i \in Seats : room.players[i].occ /\ room.players[i].connected})
OccupiedCount(room) == Cardinality({i \in Seats : room.players[i].occ})
RoomCount == Cardinality({r \in RoomIds : rooms[r].live})

\* array.splice(0, n): the removed head, and what is left.
Take(seq, n) == SubSeq(seq, 1, IF n < Len(seq) THEN n ELSE Len(seq))
Drop(seq, n) == SubSeq(seq, (IF n < Len(seq) THEN n ELSE Len(seq)) + 1, Len(seq))

(***************************************************************************)
(* Dealing.                                                                *)
(***************************************************************************)
\* The deck orders shuffleDeck is taken to produce: the deck dealt round the
\* suits, the unshuffled deck, and further permutations p -> (a*p + k) mod 32.
DeckOf(k) ==
    LET n == Len(createDeck) IN
    IF k = 1
    THEN [p \in 1..n |-> createDeck[((p - 1) % Len(suits)) * Len(ranks) + ((p - 1) \div Len(suits)) + 1]]
    ELSE IF k = 2 THEN createDeck
    ELSE [p \in 1..n |-> createDeck[(((2 * k + 1) * (p - 1) + k) % n) + 1]]

\* Variant: dealing for trump selection also resets the scores, as the
\* start of a match does.
dealCardsForTrumpSelectionResetsScores(room, shuffled) ==
    LET cur == room.currentPlayerIndex IN
    IF room.players[cur].occ
    THEN [room EXCEPT
            !.scores = [teamA |-> 0, teamB |-> 0],
            !.deck = Drop(shuffled, SelectorCards),
            !.players = [i \in Seats |->
                IF i = cur THEN [room.players[i] EXCEPT !.hand = Take(shuffled, SelectorCards)]
                ELSE IF room.players[i].occ THEN [room.players[i] EXCEPT !.hand = <<>>]
                ELSE room.players[i]]]
    ELSE [room EXCEPT !.deck = shuffled]

dealCardsForTrumpSelection(room, shuffled) ==
    LET cur == room.currentPlayerIndex IN
    IF room.players[cur].occ
    THEN [room EXCEPT
            !.deck = Drop(shuffled, SelectorCards),
            !.players = [i \in Seats |->
                IF i = cur THEN [room.players[i] EXCEPT !.hand = Take(shuffled, SelectorCards)]
                ELSE IF room.players[i].occ THEN [room.players[i] EXCEPT !.hand = <<>>]
                ELSE room.players[i]]]
    ELSE [room EXCEPT !.deck = shuffled]

\* dealRemainingCards: seats in index order; the selector takes 4 more, the
\* others take 8; an empty seat takes nothing.
dealRemainingCards(room) ==
    LET cur == room.currentPlayerIndex
        Step(r, i) ==
            IF ~r.players[i].occ THEN r
            ELSE IF i = cur
            THEN [r EXCEPT !.players[i].hand = r.players[i].hand \o Take(r.deck, SelectorCards),
                           !.deck = Drop(r.deck, SelectorCards)]
            ELSE [r EXCEPT !.players[i].hand = Take(r.deck, HandSize),
                           !.deck = Drop(r.deck, HandSize)]
    IN  Step(Step(Step(Step(room, 0), 1), 2), 3)

startGame(room, shuffled) ==
    dealCardsForTrumpSelection(
        [room EXCEPT !.gameState = "trump_selection",
                     !.currentPlayerIndex = 0,
                     !.trumpSelector = 0,
                     !.scores = [teamA |-> 0, teamB |-> 0],
                     !.tricksWon = [i \in Seats |-> 0],
                     !.idle = FALSE],
        shuffled)


(***************************************************************************)
(* Seating and reconnection.                                               *)
(***************************************************************************)
OtherTeam(team) == IF team = "A" THEN "B" ELSE "A"

\* The positions of a team, in order, that hold no player.
\* Variant: the seat of a disconnected player counts as available.
AvailablePositionsOrDisconnected(room, team) ==
    SelectSeq(TEAM_POSITIONS[team],
              LAMBDA pos : ~room.players[pos].occ \/ ~room.players[pos].connected)

AvailablePositions(room, team) ==
    SelectSeq(TEAM_POSITIONS[team], LAMBDA pos : ~room.players[pos].occ)

\* Variant: a join is seated with its preferred team or not at all.
findPositionForTeamOnly(room, preferredTeam) ==
    IF Len(AvailablePositions(room, preferredTeam)) > 0
    THEN AvailablePositions(room, preferredTeam)[1]
    ELSE -1

findPositionForTeam(room, preferredTeam) ==
    LET availablePositions == AvailablePositions(room, preferredTeam)
        otherAvailablePositions == AvailablePositions(room, OtherTeam(preferredTeam))
    IN  IF Len(availablePositions) > 0 THEN availablePositions[1]
        ELSE IF Len(otherAvailablePositions) > 0 THEN otherAvailablePositions[1]
        ELSE -1

NameTaken(room, name) ==
    \E i \in Seats : room.players[i].occ /\ room.players[i].connected /\ room.players[i].name = name

NewPlayer(id, name, position) ==
    [occ |-> TRUE, id |-> id, name |-> name, team |-> getTeamForPosition(position),
     hand |-> <<>>, connected |-> TRUE, stale |-> FALSE]

Failure(room, created, message) ==
    [success |-> FALSE, created |-> created, room |-> room, position |-> -1,
     isReconnection |-> FALSE, message |-> message]

\* The ordinary join of addPlayerToRoom (lines 457-485).
NormalJoin(room, id, name, preferredTeam) ==
    LET position == findPositionForTeam(room, preferredTeam) IN
    IF position = -1 THEN Failure(room, TRUE, "Room is full")
    ELSE IF NameTaken(room, name) THEN Failure(room, TRUE, "Name already taken")
    ELSE [success |-> TRUE, created |-> TRUE,
          room |-> [room EXCEPT !.players[position] = NewPlayer(id, name, position)],
          position |-> position, isReconnection |-> FALSE, message |-> ""]

\* addPlayerToRoom on the registry entry old of the room id (live or not);
\* created says whether the Map holds the room afterwards.
addPlayerToRoom(old, id, name, preferredTeam, isReconnect) ==
    IF ~old.live /\ RoomCount >= MAX_ROOMS
    THEN Failure(old, FALSE, "Server is full. Please try again later.")
    ELSE
    LET room == [(IF old.live THEN old ELSE initializeRoom) EXCEPT !.idle = FALSE]
        existingPlayerIndex ==
            FindIndex(room.players, LAMBDA p : p.occ /\ p.name = name /\ ~p.connected)
        connectedPlayerIndex ==
            FindIndex(room.players, LAMBDA p : p.occ /\ p.name = name /\ p.connected)
    IN  IF isReconnect /\ existingPlayerIndex # -1
        THEN [success |-> TRUE, created |-> TRUE,
              room |-> [room EXCEPT !.players[existingPlayerIndex].id = id,
                                    !.players[existingPlayerIndex].connected = TRUE,
                                    !.players[existingPlayerIndex].stale = FALSE],
              position |-> existingPlayerIndex, isReconnection |-> TRUE, message |-> ""]
        ELSE IF isReconnect /\ connectedPlayerIndex # -1
        THEN Failure(room, TRUE, "Player with this name is already connected")
        ELSE NormalJoin(room, id, name, preferredTeam)

IsTurnOf(room, position) ==
    room.currentPlayerIndex = position /\ room.gameState = "playing"

\* getFullGameStateForPlayer, as the gameInProgress notification to socket id.
getFullGameStateForPlayer(room, playerPosition, id) ==
    [to |-> id, ev |-> "gameInProgress", msg |-> "",
     st |-> room.gameState,
     turn |-> IsTurnOf(room, playerPosition),
     cards |-> IF IsTurnOf(room, playerPosition)
               THEN getPlayableCards(room.players[playerPosition].hand, room.currentTrick, room.trump)
               ELSE <<>>]

\* canSelectTrump to the selector and waitingForTrump to the other connected
\* seats, sent when the selector's seat is occupied and connected.
TrumpSelectionMsgs(room) ==
    LET cur == room.currentPlayerIndex IN
    IF room.players[cur].occ /\ room.players[cur].connected
    THEN {Msg(room.players[cur].id, "canSelectTrump", "")}
         \cup {Msg(room.players[i].id, "waitingForTrump", "") :
                 i \in {j \in Seats : j # cur /\ room.players[j].occ /\ room.players[j].connected}}
    ELSE {}

\* yourTurn to the current seat and turnUpdate to the other seats; with
\* onlyConnected the seats that are not connected are skipped.
TurnMsgs(room, onlyConnected) ==
    LET cur == room.currentPlayerIndex
        p == room.players[cur]
    IN  IF p.occ /\ (onlyConnected => p.connected)
        THEN {TurnMsg(p.id, getPlayableCards(p.hand, room.currentTrick, room.trump))}
             \cup {Msg(room.players[i].id, "turnUpdate", "") :
                     i \in {j \in Seats : j # cur /\ room.players[j].occ
                                            /\ (onlyConnected => room.players[j].connected)}}
        ELSE {}

\* The resume step of the reconnection branch (lines 709-769): the room
\* after it, given the deck a fresh trump-selection deal would use.
ResumeRoom(room, shuffled) ==
    IF room.gameState = "paused" /\ ConnectedCount(room) >= NumSeats
    THEN IF room.trump = NullTrump
         THEN LET r1 == [room EXCEPT !.gameState = "trump_selection"]
                  sel == r1.players[r1.currentPlayerIndex]
              IN  IF sel.occ /\ sel.connected /\ Len(sel.hand) = 0
                  THEN dealCardsForTrumpSelection(r1, shuffled)
                  ELSE r1
         ELSE [room EXCEPT !.gameState = "playing"]
    ELSE room

ResumeMsgs(room, after, position, id) ==
    IF room.gameState = "paused" /\ ConnectedCount(room) >= NumSeats
    THEN IF room.trump = NullTrump
         THEN TrumpSelectionMsgs(after)
         ELSE {Msg(RoomCast, "gameResumed", "")}
              \cup (IF room.currentPlayerIndex = position
                    THEN {TurnMsg(id, getPlayableCards(room.players[position].hand,
                                                       room.currentTrick, room.trump))}
                    ELSE {})
    ELSE {}

\* The new-join branch (lines 785-807).
StartRoom(room, shuffled) ==
    IF ConnectedCount(room) = NumSeats /\ room.gameState = "waiting" /\ OccupiedCount(room) = NumSeats
    THEN startGame(room, shuffled)
    ELSE room

\* A connection that has not joined, and is not seated anywhere.
Fresh(s) ==
    /\ playerSockets[s] = 0
    /\ \A r \in RoomIds, i \in Seats : ~(rooms[r].players[i].occ /\ rooms[r].players[i].id = s)

\* The display name a connection sends in all its joins: connections
\* 1..NumNames are the first connections of the users 1..NumNames, and the
\* connections above NumNames are later connections of user 1.
NameOf(s) == IF s <= NumNames THEN s ELSE 1

FirstConnection(s) == s <= NumNames

\* The team a connection asks for: a user's first connection asks for the
\* team of its number (A, B, A, B, ...), a later connection for either.
TeamChoices(s) ==
    IF FirstConnection(s) THEN {IF s % 2 = 1 THEN "A" ELSE "B"} ELSE Teams

\* Users are interchangeable until they act, and so are the later
\* connections of user 1: of the fresh connections of either kind the
\* lowest-numbered acts first.
MayAct(s) ==
    /\ sockOpen[s]
    /\ Fresh(s) => \A t \in Sockets :
          (t < s /\ sockOpen[t] /\ FirstConnection(t) = FirstConnection(s)) => ~Fresh(t)


(***************************************************************************)
(* Scoring.                                                                *)
(***************************************************************************)
\* Variant: any team that wins all the tricks is awarded two points.
PointsForAnySweep(team, teamTricks, defendingTeam) ==
    IF teamTricks = tricksExpected THEN 2 ELSE 1

PointsFor(team, teamTricks, defendingTeam) ==
    IF defendingTeam = team /\ teamTricks = tricksExpected THEN 2 ELSE 1

checkRoundComplete(room) ==
    LET tricksPlayed == room.tricksWon[0] + room.tricksWon[1] + room.tricksWon[2] + room.tricksWon[3]
        teamATricks == room.tricksWon[0] + room.tricksWon[2]
        teamBTricks == room.tricksWon[1] + room.tricksWon[3]
        trumpTeam == getTeamForPosition(room.trumpSelector)
        defendingTeam == IF trumpTeam = "A" THEN "B" ELSE "A"
        winningTeam == IF teamATricks > teamBTricks THEN "A"
                       ELSE IF teamBTricks > teamATricks THEN "B" ELSE "null"
        pointsAwarded == IF winningTeam = "A" THEN PointsFor("A", teamATricks, defendingTeam)
                         ELSE IF winningTeam = "B" THEN PointsFor("B", teamBTricks, defendingTeam)
                         ELSE 0
        scores == [teamA |-> room.scores.teamA + (IF winningTeam = "A" THEN pointsAwarded ELSE 0),
                   teamB |-> room.scores.teamB + (IF winningTeam = "B" THEN pointsAwarded ELSE 0)]
        next == (room.currentPlayerIndex + 1) % NumSeats
    IN  IF tricksPlayed >= tricksExpected
        THEN IF scores.teamA >= targetScore \/ scores.teamB >= targetScore
             THEN [roundComplete |-> TRUE, gameComplete |-> TRUE,
                   winningTeam |-> winningTeam, pointsAwarded |-> pointsAwarded,
                   teamATricks |-> teamATricks, teamBTricks |-> teamBTricks,
                   trumpTeam |-> trumpTeam, defendingTeam |-> defendingTeam,
                   room |-> [room EXCEPT !.scores = scores, !.gameState = "completed"]]
             ELSE [roundComplete |-> TRUE, gameComplete |-> FALSE,
                   winningTeam |-> winningTeam, pointsAwarded |-> pointsAwarded,
                   teamATricks |-> teamATricks, teamBTricks |-> teamBTricks,
                   trumpTeam |-> trumpTeam, defendingTeam |-> defendingTeam,
                   room |-> [room EXCEPT !.scores = scores,
                                         !.tricksWon = [i \in Seats |-> 0],
                                         !.currentTrick = <<>>,
                                         !.trump = NullTrump,
                                         !.gameState = "trump_selection",
                                         !.currentPlayerIndex = next,
                                         !.trumpSelector = next]]
        ELSE [roundComplete |-> FALSE, gameComplete |-> FALSE,
              winningTeam |-> "null", pointsAwarded |-> 0,
              teamATricks |-> teamATricks, teamBTricks |-> teamBTricks,
              trumpTeam |-> trumpTeam, defendingTeam |-> defendingTeam, room |-> room]

\* Variant: a team is announced only when it leads by two points or more.
finalWinnerByTwo(scores) ==
    IF scores.teamA > scores.teamB + 1 THEN "Team A"
    ELSE IF scores.teamB > scores.teamA + 1 THEN "Team B" ELSE "Tie"

finalWinner(scores) ==
    IF scores.teamA > scores.teamB THEN "Team A"
    ELSE IF scores.teamB > scores.teamA THEN "Team B" ELSE "Tie"

(***************************************************************************)
(* The joinRoom handler.                                                   *)
(***************************************************************************)
\* Room ids are interchangeable until used: a new room takes the lowest id
\* the Map does not hold.
MayName(r) == rooms[r].live \/ \A q \in RoomIds : q < r => rooms[q].live

\* The decks shuffleDeck may return to a join that deals, and one
\* placeholder for a join that does not shuffle.
Shuffles == {DeckOf(k) : k \in 1..NumDecks}

JoinDecks(res) ==
    IF res.success /\ (IF res.isReconnection
                       THEN ResumeRoom(res.room, <<>>) # ResumeRoom(res.room, createDeck)
                       ELSE StartRoom(res.room, <<>>) # StartRoom(res.room, createDeck))
    THEN Shuffles ELSE {<<>>}

\* No handler reads the notifications; an error is flushed to its socket
\* before the next event is handled.
NoError == [to |-> 0, msg |-> ""]
Reject(s, message) == [to |-> s, msg |-> message]
NoErrorPending == err = NoError

Faults == used.disconnects + used.away + used.free
MayBeRejected == Faults < MaxFaults

\* The rooms a connection names in its joins.
RoomChoices(s) == {r \in RoomIds : MayName(r) /\ (r # 1 => s <= NumRoamers)}

JoinRoom(s, r, name, team, isReconnect) ==
    /\ MayAct(s)
    /\ name = NameOf(s)
    /\ team \in TeamChoices(s)
    /\ r \in RoomChoices(s)
    /\ NoErrorPending
    /\ \E shuffled \in JoinDecks(addPlayerToRoom(rooms[r], s, name, team, isReconnect)) :
        LET res == addPlayerToRoom(rooms[r], s, name, team, isReconnect)
            after == IF res.isReconnection THEN ResumeRoom(res.room, shuffled)
                     ELSE StartRoom(res.room, shuffled)
        IN  IF ~res.success
            THEN /\ MayBeRejected
                 /\ \A t \in Sockets : (t < s /\ MayAct(t)) =>
                        addPlayerToRoom(rooms[r], t, NameOf(t), team, isReconnect).message # res.message
                 /\ rooms' = [rooms EXCEPT ![r] = res.room]
                 /\ err' = Reject(s, res.message)
                 /\ UNCHANGED <<playerSockets, used, out, leftAt>>
            ELSE /\ used.joins < MaxJoins
                 /\ r # 1 => (used.away < MaxAwayJoins /\ Faults < MaxFaults)
                 /\ used' = [used EXCEPT !.joins = used.joins + 1,
                                         !.away = IF r # 1 THEN used.away + 1 ELSE used.away]
                 /\ rooms' = [rooms EXCEPT ![r] = after]
                 /\ playerSockets' = [playerSockets EXCEPT ![s] = r]
                 /\ out' = IF res.isReconnection
                           THEN {getFullGameStateForPlayer(res.room, res.position, s),
                                 Msg(RoomCast, "playerRejoined", "")}
                                \cup ResumeMsgs(res.room, after, res.position, s)
                           ELSE {Msg(RoomCast, "playerJoined", "")}
                                \cup (IF after.gameState # res.room.gameState
                                      THEN TrumpSelectionMsgs(after) ELSE {})
                 /\ leftAt' = IF res.isReconnection
                              THEN [leftAt EXCEPT ![r][res.position] = <<>>]
                              ELSE leftAt
                 /\ UNCHANGED err
    /\ UNCHANGED <<sockOpen, timers, pausedFrom, pureVars>>

(***************************************************************************)
(* The selectTrump handler.                                                *)
(***************************************************************************)
SeatOfSocket(room, s) == FindIndex(room.players, LAMBDA p : p.occ /\ p.id = s)

\* The trump values clients send: suits, null, a missing field, and a string
\* that is no suit.
TrumpInputs == {suits[i] : i \in 1..NumTrumpSuits} \cup {NullTrump, UndefinedTrump, "Joker"}

\* Connections that get the same answer to an event the server rejects are
\* interchangeable as its sender: the lowest-numbered sends it.
FirstToGet(s, Same(_)) == \A t \in Sockets : (t < s /\ MayAct(t)) => ~Same(t)

\* Variant: the handler does not check whose turn it is.
TrumpErrorNoTurnCheck(room, s) ==
    IF ~room.live \/ room.gameState # "trump_selection" THEN "Cannot select trump now"
    ELSE ""

\* The error the handler answers with, or "" when it accepts the event.
TrumpError(room, s) ==
    IF ~room.live \/ room.gameState # "trump_selection" THEN "Cannot select trump now"
    ELSE IF SeatOfSocket(room, s) # room.currentPlayerIndex THEN "Not your turn to select trump"
    ELSE ""

\* The handler reads the trump value only when it accepts the event.
TrumpIsRead(room, s) == TrumpError(room, s) = ""

TrumpChoices(s, r) == IF TrumpIsRead(rooms[r], s) THEN TrumpInputs ELSE {NullTrump}

AcceptTrump(room, playerIndex, trump) ==
    dealRemainingCards([room EXCEPT !.trump = trump,
                                    !.trumpSelector = playerIndex,
                                    !.gameState = "playing",
                                    !.idle = FALSE])

SelectTrump(s, r, trump) ==
    /\ MayAct(s)
    /\ NoErrorPending
    /\ trump \in TrumpChoices(s, r)
    /\ LET room == rooms[r]
           playerIndex == SeatOfSocket(room, s)
           message == TrumpError(room, s)
       IN  IF message # ""
           THEN /\ MayBeRejected
                /\ err' = Reject(s, message)
                /\ FirstToGet(s, LAMBDA t : TrumpError(room, t) = message)
                /\ UNCHANGED <<rooms, used, out>>
           ELSE /\ used.trumps < MaxTrumps
                /\ used' = [used EXCEPT !.trumps = used.trumps + 1]
                /\ rooms' = [rooms EXCEPT ![r] = AcceptTrump(room, playerIndex, trump)]
                /\ out' = {Msg(RoomCast, "trumpSelected", trump)}
                          \cup {Msg(rooms'[r].players[i].id, "fullHand", "") :
                                  i \in {j \in Seats : room.players[j].occ}}
                          \cup TurnMsgs(rooms'[r], FALSE)
                /\ UNCHANGED err
    /\ UNCHANGED <<playerSockets, sockOpen, timers, pausedFrom, leftAt, pureVars>>


(***************************************************************************)
(* The playCard handler.                                                   *)
(***************************************************************************)
\* hand[cardIndex], 0-based; Null also stands for undefined (out of range).
CardAt(hand, cardIndex) ==
    IF cardIndex + 1 \in 1..Len(hand) THEN hand[cardIndex + 1] ELSE Null

\* Lines 925-936: the card joins the trick and its slot becomes null.
PutCard(room, playerIndex, cardIndex) ==
    [room EXCEPT !.idle = FALSE,
                 !.currentTrick = Append(room.currentTrick,
                     [playerIndex |-> playerIndex,
                      card |-> room.players[playerIndex].hand[cardIndex + 1]]),
                 !.players[playerIndex].hand[cardIndex + 1] = Null]

\* Variant: the winner of a trick is credited two tricks.
ResolveTrickCountsTwice(room) ==
    LET winnerIndex == getTrickWinner(room.currentTrick, room.trump).playerIndex IN
    [room EXCEPT !.tricksWon[winnerIndex] = room.tricksWon[winnerIndex] + 2,
                 !.currentTrick = <<>>,
                 !.currentPlayerIndex = winnerIndex,
                 !.lastTrickWinner = winnerIndex]

\* Variant: the winner is credited the trick, and the seat that played the
\* fourth card stays the current seat.
ResolveTrickLeaderStays(room) ==
    LET winnerIndex == getTrickWinner(room.currentTrick, room.trump).playerIndex IN
    [room EXCEPT !.tricksWon[winnerIndex] = room.tricksWon[winnerIndex] + 1,
                 !.currentTrick = <<>>,
                 !.lastTrickWinner = winnerIndex]

\* Lines 948-966: the full trick is resolved.
ResolveTrick(room) ==
    LET winnerIndex == getTrickWinner(room.currentTrick, room.trump).playerIndex IN
    [room EXCEPT !.tricksWon[winnerIndex] = room.tricksWon[winnerIndex] + 1,
                 !.currentTrick = <<>>,
                 !.currentPlayerIndex = winnerIndex,
                 !.lastTrickWinner = winnerIndex]

\* The room after an accepted play, and the callback the play schedules.
AfterPlay(room, playerIndex, cardIndex) ==
    LET put == PutCard(room, playerIndex, cardIndex) IN
    IF Len(put.currentTrick) = NumSeats
    THEN LET roundStatus == checkRoundComplete(ResolveTrick(put)) IN
         [room |-> roundStatus.room,
          timer |-> IF roundStatus.gameComplete THEN "cleanup"
                    ELSE IF roundStatus.roundComplete THEN "nextDeal" ELSE "nextTrick",
          msgs |-> {Msg(RoomCast, "cardPlayed", ""), Msg(RoomCast, "trickComplete", "")}
                   \cup (IF roundStatus.gameComplete
                         THEN {Msg(RoomCast, "gameOver", finalWinner(roundStatus.room.scores))}
                         ELSE IF roundStatus.roundComplete
                         THEN {Msg(RoomCast, "roundComplete", roundStatus.winningTeam)}
                         ELSE {})]
    ELSE LET moved == [put EXCEPT !.currentPlayerIndex = (put.currentPlayerIndex + 1) % NumSeats] IN
         [room |-> moved, timer |-> "none",
          msgs |-> {Msg(RoomCast, "cardPlayed", "")} \cup TurnMsgs(moved, TRUE)]

\* Variant: the handler does not check the card against the follow-suit rule.
PlayErrorAnyCard(room, s, cardIndex) ==
    LET playerIndex == SeatOfSocket(room, s) IN
    IF ~room.live \/ room.gameState # "playing" THEN "Game not in playing state"
    ELSE IF playerIndex = -1 THEN "Player not found"
    ELSE IF playerIndex # room.currentPlayerIndex THEN "Not your turn"
    ELSE IF CardAt(room.players[playerIndex].hand, cardIndex) = Null
    THEN "Invalid card - card not found"
    ELSE ""

\* The error the handler answers with, or "" when the play is accepted.
PlayError(room, s, cardIndex) ==
    LET playerIndex == SeatOfSocket(room, s) IN
    IF ~room.live \/ room.gameState # "playing" THEN "Game not in playing state"
    ELSE IF playerIndex = -1 THEN "Player not found"
    ELSE IF playerIndex # room.currentPlayerIndex THEN "Not your turn"
    ELSE IF CardAt(room.players[playerIndex].hand, cardIndex) = Null
    THEN "Invalid card - card not found"
    ELSE IF ~isValidPlay(CardAt(room.players[playerIndex].hand, cardIndex),
                         room.players[playerIndex].hand, room.currentTrick, room.trump)
    THEN "Must follow suit! You have " \o SuitOf(room.currentTrick[1].card) \o " cards."
    ELSE ""

\* The slot a client plays when it does not choose: the lowest legal one.
LowestLegal(room, playerIndex) ==
    getPlayableCards(room.players[playerIndex].hand, room.currentTrick, room.trump)[1]

\* The handler reads cardIndex only once the sender is the current seat.
CardIndexIsRead(room, s) ==
    room.live /\ room.gameState = "playing"
    /\ SeatOfSocket(room, s) = room.currentPlayerIndex

CardIndexChoices(s, r) == IF CardIndexIsRead(rooms[r], s) THEN 0..HandSize ELSE {0}

PlayCard(s, r, cardIndex) ==
    /\ MayAct(s)
    /\ NoErrorPending
    /\ cardIndex \in CardIndexChoices(s, r)
    /\ LET room == rooms[r]
           message == PlayError(room, s, cardIndex)
           playerIndex == SeatOfSocket(room, s)
           res == AfterPlay(room, playerIndex, cardIndex)
           free == cardIndex # LowestLegal(room, playerIndex)
       IN  IF message # ""
           THEN /\ MayBeRejected
                /\ err' = Reject(s, message)
                /\ FirstToGet(s, LAMBDA t : PlayError(room, t, cardIndex) = message)
                /\ UNCHANGED <<rooms, timers, used, out>>
           ELSE /\ used.plays < MaxPlays
                /\ free => (used.free < MaxFreePlays /\ Faults < MaxFaults)
                /\ used' = [used EXCEPT !.plays = used.plays + 1,
                                        !.free = IF free THEN used.free + 1 ELSE used.free]
                /\ rooms' = [rooms EXCEPT ![r] = res.room]
                /\ timers' = IF res.timer = "none" THEN timers
                             ELSE [timers EXCEPT ![r] = Append(timers[r], res.timer)]
                /\ out' = res.msgs
                /\ UNCHANGED err
    /\ UNCHANGED <<playerSockets, sockOpen, pausedFrom, leftAt, pureVars>>

(***************************************************************************)
(* The disconnect handler.                                                 *)
(***************************************************************************)
InProgress(gameState) == gameState = "playing" \/ gameState = "trump_selection"

\* Lines 1089-1116 on the room of the leaving socket's seat.
\* Variant: the room is paused during play only.
LeaveRoomPausesPlayOnly(room, playerIndex) ==
    LET left == [room EXCEPT !.players[playerIndex].connected = FALSE,
                             !.players[playerIndex].stale = FALSE,
                             !.idle = FALSE]
    IN  IF left.gameState = "playing" /\ ConnectedCount(left) >= 1
        THEN [left EXCEPT !.gameState = "paused"]
        ELSE left

\* Variant: the room is paused whatever its phase.
LeaveRoomPausesAnyPhase(room, playerIndex) ==
    LET left == [room EXCEPT !.players[playerIndex].connected = FALSE,
                             !.players[playerIndex].stale = FALSE,
                             !.idle = FALSE]
    IN  IF ConnectedCount(left) >= 1
        THEN [left EXCEPT !.gameState = "paused"]
        ELSE left

LeaveRoom(room, playerIndex) ==
    LET left == [room EXCEPT !.players[playerIndex].connected = FALSE,
                             !.players[playerIndex].stale = FALSE,
                             !.idle = FALSE]
    IN  IF InProgress(left.gameState) /\ ConnectedCount(left) >= 1
        THEN [left EXCEPT !.gameState = "paused"]
        ELSE left

\* What a seat and its room hold (for the history variable leftAt).
Held(room, i) ==
    [name |-> room.players[i].name, team |-> room.players[i].team,
     hand |-> room.players[i].hand, trump |-> room.trump,
     currentTrick |-> room.currentTrick,
     currentPlayerIndex |-> room.currentPlayerIndex,
     tricksWon |-> room.tricksWon, scores |-> room.scores,
     gameState |-> room.gameState]

Disconnect(s) ==
    /\ MayAct(s)
    /\ ~Fresh(s)
    /\ NoErrorPending
    /\ used.disconnects < MaxDisconnects
    /\ Faults < MaxFaults
    /\ used' = [used EXCEPT !.disconnects = used.disconnects + 1]
    /\ sockOpen' = [sockOpen EXCEPT ![s] = FALSE]
    /\ playerSockets' = [playerSockets EXCEPT ![s] = 0]
    /\ LET r == playerSockets[s] IN
       IF r # 0 /\ rooms[r].live /\ SeatOfSocket(rooms[r], s) # -1
       THEN LET after == LeaveRoom(rooms[r], SeatOfSocket(rooms[r], s)) IN
            /\ rooms' = [rooms EXCEPT ![r] = after]
            /\ pausedFrom' = IF after.gameState # rooms[r].gameState
                             THEN [pausedFrom EXCEPT ![r] = rooms[r].gameState]
                             ELSE pausedFrom
            /\ leftAt' = [leftAt EXCEPT ![r][SeatOfSocket(rooms[r], s)] =
                                <<Held(rooms[r], SeatOfSocket(rooms[r], s))>>]
            /\ out' = {Msg(RoomCast, "playerLeft", "")}
                      \cup (IF after.gameState # rooms[r].gameState
                            THEN {Msg(RoomCast, "gameInterrupted", "")} ELSE {})
       ELSE /\ out' = {}
            /\ UNCHANGED <<rooms, pausedFrom, leftAt>>
    /\ UNCHANGED <<timers, err, pureVars>>

(***************************************************************************)
(* Room cleanup, the health check and the passage of time.                 *)
(***************************************************************************)
ConnectedIds(room) == {room.players[i].id : i \in {j \in Seats : room.players[j].occ /\ room.players[j].connected}}

\* cleanupRoom: roomClosed to the connected seats, their playerSockets
\* entries and the room are deleted. The callbacks that hold the room object
\* (next trick, next deal) lose the room the registry knows.
CleanupRoom(r) ==
    IF rooms[r].live
    THEN /\ out' = {Msg(id, "roomClosed", "") : id \in ConnectedIds(rooms[r])}
         /\ playerSockets' = [t \in Sockets |->
                IF t \in ConnectedIds(rooms[r]) THEN 0 ELSE playerSockets[t]]
         /\ rooms' = [rooms EXCEPT ![r] = NoRoom]
         /\ leftAt' = [leftAt EXCEPT ![r] = [i \in Seats |-> <<>>]]
    ELSE /\ out' = {}
         /\ UNCHANGED <<rooms, playerSockets, leftAt>>

Evictable(p) == p.occ /\ ~p.connected /\ p.stale

\* checkRoomHealth, as run by the periodic sweep and by the timer the
\* disconnect handler sets. A run that finds nothing to do changes nothing.
CheckRoomHealth(r) ==
    /\ rooms[r].live
    /\ NoErrorPending
    /\ \/ ConnectedCount(rooms[r]) = 0 /\ rooms[r].idle
       \/ \E i \in Seats : Evictable(rooms[r].players[i])
    /\ IF ConnectedCount(rooms[r]) = 0 /\ rooms[r].idle
       THEN /\ CleanupRoom(r)
            /\ timers' = [timers EXCEPT ![r] = SelectSeq(timers[r], LAMBDA t : t = "cleanup")]
       ELSE LET hasChanges == \E i \in Seats : Evictable(rooms[r].players[i])
                after == [rooms[r] EXCEPT
                            !.players = [i \in Seats |->
                                IF Evictable(rooms[r].players[i]) THEN NoPlayer
                                ELSE rooms[r].players[i]],
                            !.idle = IF hasChanges THEN FALSE ELSE rooms[r].idle]
            IN  /\ rooms' = [rooms EXCEPT ![r] = after]
                /\ out' = IF hasChanges
                          THEN {Msg(id, "roomCleaned", "") : id \in ConnectedIds(after)}
                          ELSE {}
                /\ leftAt' = [leftAt EXCEPT ![r] = [i \in Seats |->
                                IF Evictable(rooms[r].players[i]) THEN <<>> ELSE leftAt[r][i]]]
                /\ UNCHANGED <<playerSockets, timers>>
    /\ UNCHANGED <<sockOpen, err, pausedFrom, used, pureVars>>

\* More than 2 minutes pass since the room's last activity. The deferred
\* callbacks (3 s, 30 s) of the room have fired by then.
AgeRoom(r) ==
    /\ rooms[r].live
    /\ NoErrorPending
    /\ ~rooms[r].idle
    /\ ConnectedCount(rooms[r]) < OccupiedCount(rooms[r]) \/ ConnectedCount(rooms[r]) = 0
    /\ timers[r] = <<>>
    /\ rooms' = [rooms EXCEPT ![r].idle = TRUE]
    /\ UNCHANGED <<playerSockets, sockOpen, timers, out, err, pausedFrom, leftAt, used, pureVars>>

\* More than PLAYER_TIMEOUT (5 minutes) passes since a disconnected seat was
\* last seen; lastActivity is never older than lastSeen.
AgeSeat(r, i) ==
    /\ rooms[r].live
    /\ NoErrorPending
    /\ rooms[r].idle
    /\ timers[r] = <<>>
    /\ rooms[r].players[i].occ
    /\ ~rooms[r].players[i].connected
    /\ ~rooms[r].players[i].stale
    /\ rooms' = [rooms EXCEPT ![r].players[i].stale = TRUE]
    /\ UNCHANGED <<playerSockets, sockOpen, timers, out, err, pausedFrom, leftAt, used, pureVars>>

(***************************************************************************)
(* The deferred callbacks.                                                 *)
(***************************************************************************)
\* Lines 1027-1047: the next-trick callback reads the room it captured.
NextTrickCallback(r) ==
    /\ timers[r] # <<>>
    /\ NoErrorPending
    /\ Head(timers[r]) = "nextTrick"
    /\ timers' = [timers EXCEPT ![r] = Tail(timers[r])]
    /\ out' = TurnMsgs(rooms[r], TRUE)
    /\ UNCHANGED <<rooms, playerSockets, sockOpen, err, pausedFrom, leftAt, used, pureVars>>

\* Lines 1004-1023: the next-deal callback deals on the room it captured.
NextDealCallback(r) ==
    /\ timers[r] # <<>>
    /\ NoErrorPending
    /\ Head(timers[r]) = "nextDeal"
    /\ timers' = [timers EXCEPT ![r] = Tail(timers[r])]
    /\ \E shuffled \in Shuffles :
         rooms' = [rooms EXCEPT ![r] = dealCardsForTrumpSelection(rooms[r], shuffled)]
    /\ out' = TrumpSelectionMsgs(rooms'[r])
    /\ UNCHANGED <<playerSockets, sockOpen, err, pausedFrom, leftAt, used, pureVars>>

\* Line 993: setTimeout(() => cleanupRoom(roomId), 30000).
CleanupCallback(r) ==
    /\ timers[r] # <<>>
    /\ NoErrorPending
    /\ Head(timers[r]) = "cleanup"
    /\ timers' = [timers EXCEPT ![r] = SelectSeq(Tail(timers[r]), LAMBDA t : t = "cleanup")]
    /\ CleanupRoom(r)
    /\ UNCHANGED <<sockOpen, err, pausedFrom, used, pureVars>>

\* The error of a rejected event reaches its socket.
FlushError ==
    /\ ~NoErrorPending
    /\ err' = NoError
    /\ UNCHANGED <<rooms, playerSockets, sockOpen, timers, out, pausedFrom, leftAt, used, pureVars>>

(***************************************************************************)
(* Rooms further into a match: the rooms the handlers above produce when   *)
(* connections 1..4 join a new room and every seat plays, at its turn, the *)
(* lowest legal slot of its hand, every selector choosing the first suit.  *)
(***************************************************************************)
\* joinRoom by the connections 1..4 in turn; the fourth join starts the game.
FullLobby ==
    LET Join(room, s) ==
            NormalJoin(room, s, NameOf(s), CHOOSE t \in TeamChoices(s) : TRUE).room
    IN  Join(Join(Join(Join(initializeRoom, 1), 2), 3), 4)

SeatedRoom == startGame(FullLobby, DeckOf(1))

\* selectTrump by the current seat.
ScriptedTrump(room) == AcceptTrump(room, room.currentPlayerIndex, suits[1])

\* playCard by the current seat, and the next-deal callback once the play
\* has scheduled it.
ScriptedPlay(room) ==
    LET res == AfterPlay(room, room.currentPlayerIndex,
                         LowestLegal(room, room.currentPlayerIndex))
    IN  IF res.timer = "nextDeal"
        THEN dealCardsForTrumpSelection(res.room, DeckOf(1))
        ELSE res.room

RECURSIVE ScriptedPlays(_, _)
ScriptedPlays(room, n) ==
    IF n = 0 \/ room.gameState # "playing" THEN room
    ELSE ScriptedPlays(ScriptedPlay(room), n - 1)

\* A whole deal, and a deal up to its last trick.
ScriptedDeal(room) == ScriptedPlays(ScriptedTrump(room), NumSeats * HandSize)
LastTrick(room) == ScriptedPlays(ScriptedTrump(room), NumSeats * (HandSize - 1))

\* A deal up to the last card of its second trick, which the seat that led
\* the trick wins.
SecondTrick(room) == ScriptedPlays(ScriptedTrump(room), 2 * NumSeats - 1)

\* The last trick of the deal that ends the match.
RECURSIVE MatchPoint(_)
MatchPoint(room) ==
    IF ScriptedDeal(room).gameState = "completed" THEN LastTrick(room)
    ELSE MatchPoint(ScriptedDeal(room))

Registry(room) == [r \in RoomIds |-> IF r = 1 THEN room ELSE NoRoom]

(***************************************************************************)
(* The specification of the server.                                        *)
(***************************************************************************)
ScoreIdle == proom = <<>> /\ pdeals = <<>>
PureIdle == phand = <<>> /\ ptrick = <<>> /\ ptrump = NullTrump /\ presult = <<>> /\ ScoreIdle

\* The server starts with an empty registry; the checks also start from the
\* second trick of a first deal, from its last trick, and from the last trick
\* of a match.
Init ==
    /\ rooms \in {[r \in RoomIds |-> NoRoom],
                  Registry(SecondTrick(SeatedRoom)),
                  Registry(LastTrick(SeatedRoom)),
                  Registry(MatchPoint(SeatedRoom))}
    /\ playerSockets = [s \in Sockets |-> IF rooms[1].live /\ s <= NumSeats THEN 1 ELSE 0]
    /\ sockOpen = [s \in Sockets |-> TRUE]
    /\ timers = [r \in RoomIds |-> <<>>]
    /\ out = {}
    /\ err = NoError
    /\ pausedFrom = [r \in RoomIds |-> "none"]
    /\ leftAt = [r \in RoomIds |-> [i \in Seats |-> <<>>]]
    /\ used = [joins |-> IF rooms[1].live THEN NumSeats ELSE 0,
               away |-> 0, trumps |-> 0, plays |-> 0, free |-> 0, disconnects |-> 0]
    /\ PureIdle

\* The connections that send events in this state.
Senders == IF NoErrorPending THEN {s \in Sockets : MayAct(s)} ELSE {}

Next ==
    \/ \E s \in Senders : \E r \in RoomChoices(s), team \in TeamChoices(s), isReconnect \in BOOLEAN :
         JoinRoom(s, r, NameOf(s), team, isReconnect)
    \/ \E s \in Senders, r \in RoomIds : \E trump \in TrumpChoices(s, r) : SelectTrump(s, r, trump)
    \/ \E s \in Senders, r \in RoomIds : \E cardIndex \in CardIndexChoices(s, r) : PlayCard(s, r, cardIndex)
    \/ \E s \in Senders : Disconnect(s)
    \/ \E r \in RoomIds : CheckRoomHealth(r)
    \/ \E r \in RoomIds : AgeRoom(r)
    \/ \E r \in RoomIds, i \in Seats : AgeSeat(r, i)
    \/ \E r \in RoomIds : NextTrickCallback(r)
    \/ \E r \in RoomIds : NextDealCallback(r)
    \/ \E r \in RoomIds : CleanupCallback(r)
    \/ FlushError

Spec == Init /\ [][Next]_vars

(***************************************************************************)
(* The card rules as pure functions: a hand and a trick are drawn slot by  *)
(* slot from a pool of cards, and the function is applied to them.         *)
(***************************************************************************)
\* The pool: cards 7 places apart in the deck, so that suits repeat.
Pool == {createDeck[((7 * i) % Len(createDeck)) + 1] : i \in 0..(PoolSize - 1)}

ServerIdle ==
    /\ rooms = [r \in RoomIds |-> NoRoom]
    /\ playerSockets = [s \in Sockets |-> 0]
    /\ sockOpen = [s \in Sockets |-> TRUE]
    /\ timers = [r \in RoomIds |-> <<>>]
    /\ out = {}
    /\ err = NoError
    /\ pausedFrom = [r \in RoomIds |-> "none"]
    /\ leftAt = [r \in RoomIds |-> [i \in Seats |-> <<>>]]
    /\ used = [joins |-> 0, away |-> 0, trumps |-> 0, plays |-> 0, free |-> 0, disconnects |-> 0]

serverVars == <<rooms, playerSockets, sockOpen, timers, out, err, pausedFrom, leftAt, used>>

InitCards ==
    /\ ServerIdle
    /\ phand = <<>>
    /\ ptrick = <<>>
    /\ ptrump \in {suits[i] : i \in 1..NumTrumpSuits} \cup {NullTrump}
    /\ presult = <<>>
    /\ ScoreIdle

DrawSlot(c) ==
    /\ presult = <<>>
    /\ Len(phand) < MaxHandLen
    /\ phand' = Append(phand, c)
    /\ UNCHANGED <<ptrick, ptrump, presult, scoreVars, serverVars>>

DrawEntry(c) ==
    /\ presult = <<>>
    /\ Len(ptrick) < MaxTrickLen
    /\ ptrick' = Append(ptrick, [playerIndex |-> Len(ptrick), card |-> c])
    /\ UNCHANGED <<phand, ptrump, presult, scoreVars, serverVars>>

\* presult holds the value returned, in a 1-tuple.
ApplyGetPlayableCards ==
    /\ presult = <<>>
    /\ presult' = <<getPlayableCards(phand, ptrick, ptrump)>>
    /\ UNCHANGED <<phand, ptrick, ptrump, scoreVars, serverVars>>

NextCards ==
    \/ \E c \in Pool \cup {Null} : DrawSlot(c)
    \/ \E c \in Pool : DrawEntry(c)
    \/ ApplyGetPlayableCards

SpecCards == InitCards /\ [][NextCards]_vars

(***************************************************************************)
(* Trick resolution as a pure function: four distinct cards are played     *)
(* into a trick, and getTrickWinner is applied to it.                      *)
(***************************************************************************)
\* The pool: cards 5 places apart in the deck, of all four suits.
TrickPool == {createDeck[((5 * i) % Len(createDeck)) + 1] : i \in 0..(TrickPoolSize - 1)}

InitTricks ==
    /\ ServerIdle
    /\ phand = <<>>
    /\ ptrick = <<>>
    /\ ptrump \in Suits
    /\ presult = <<>>
    /\ ScoreIdle

\* The next seat plays card c, which no seat has played.
PlayEntry(c) ==
    /\ presult = <<>>
    /\ Len(ptrick) < NumSeats
    /\ \A k \in 1..Len(ptrick) : ptrick[k].card # c
    /\ ptrick' = Append(ptrick, [playerIndex |-> Len(ptrick), card |-> c])
    /\ UNCHANGED <<phand, ptrump, presult, scoreVars, serverVars>>

ApplyGetTrickWinner ==
    /\ presult = <<>>
    /\ Len(ptrick) = NumSeats
    /\ presult' = <<getTrickWinner(ptrick, ptrump)>>
    /\ UNCHANGED <<phand, ptrick, ptrump, scoreVars, serverVars>>

NextTricks ==
    \/ \E c \in TrickPool : PlayEntry(c)
    \/ ApplyGetTrickWinner

SpecTricks == InitTricks /\ [][NextTricks]_vars

(***************************************************************************)
(* Scoring over a match: four seated players, deal after deal. A deal is   *)
(* taken up at its last card, with the tricks won so far and the winner of *)
(* the last trick drawn from all the splits, and the playCard handler's    *)
(* accepted path is applied to it.                                         *)
(***************************************************************************)
MatchPointScore == targetScore - 1

\* The scores of a match taken up in progress: either team, or both, one
\* point from the target.
ScoreStarts ==
    {[teamA |-> a, teamB |-> b] : a, b \in {0, MatchPointScore}} \ {[teamA |-> 0, teamB |-> 0]}

\* A match in progress, at the trump selection of seat c.
MatchRoom(scores, c) ==
    dealCardsForTrumpSelection(
        [SeatedRoom EXCEPT !.scores = scores, !.currentPlayerIndex = c, !.trumpSelector = c],
        DeckOf(1))

InitScoring ==
    /\ ServerIdle
    /\ phand = <<>>
    /\ ptrick = <<>>
    /\ ptrump = NullTrump
    /\ presult = <<>>
    /\ \/ proom = <<FullLobby>>
       \/ \E scores \in ScoreStarts, c \in Seats : proom = <<MatchRoom(scores, c)>>
    /\ pdeals = [start |-> proom[1].scores, awards |-> <<>>]

\* The fourth join has been handled: the match starts (lines 786-788).
StartMatch ==
    /\ proom[1].gameState = "waiting"
    /\ proom' = <<StartRoom(proom[1], DeckOf(1))>>
    /\ UNCHANGED <<phand, ptrick, ptrump, presult, pdeals, serverVars>>

\* The next-deal callback deals to the new selector.
DealNext ==
    /\ proom[1].gameState = "trump_selection"
    /\ Len(proom[1].players[proom[1].currentPlayerIndex].hand) # SelectorCards
    /\ proom' = <<dealCardsForTrumpSelection(proom[1], DeckOf(1))>>
    /\ UNCHANGED <<phand, ptrick, ptrump, presult, pdeals, serverVars>>

\* selectTrump by the selector.
ChooseTrump ==
    /\ proom[1].gameState = "trump_selection"
    /\ Len(proom[1].players[proom[1].currentPlayerIndex].hand) = SelectorCards
    /\ proom' = <<AcceptTrump(proom[1], proom[1].currentPlayerIndex, suits[1])>>
    /\ presult' = <<>>
    /\ UNCHANGED <<phand, ptrick, ptrump, pdeals, serverVars>>

\* The card seat i plays to the last trick, which seat w wins.
LastTrickCard(i, w) == IF i = w THEN Card(suits[1], "A") ELSE Card(suits[1], ranks[i + 1])

\* The deal at its last card: seats 0 and 1 have won a and 7 - a tricks,
\* seats 0..2 have played to the last trick and seat 3 holds the last card.
AtLastCard(room, a, w) ==
    [room EXCEPT
        !.tricksWon = [i \in Seats |-> IF i = 0 THEN a
                                       ELSE IF i = 1 THEN tricksExpected - 1 - a ELSE 0],
        !.currentTrick = [k \in 1..(NumSeats - 1) |->
                            [playerIndex |-> k - 1, card |-> LastTrickCard(k - 1, w)]],
        !.currentPlayerIndex = NumSeats - 1,
        !.players = [i \in Seats |->
            [room.players[i] EXCEPT !.hand =
                [k \in 1..HandSize |->
                    IF i = NumSeats - 1 /\ k = HandSize THEN LastTrickCard(i, w) ELSE Null]]]]

\* playCard of the last card of a deal (lines 925-1024).
ScoreLastTrick(a, w) ==
    /\ proom[1].gameState = "playing"
    /\ Len(pdeals.awards) < MaxDeals
    /\ LET last == AtLastCard(proom[1], a, w)
           res == AfterPlay(last, NumSeats - 1, HandSize - 1)
           roundStatus == checkRoundComplete(ResolveTrick(PutCard(last, NumSeats - 1, HandSize - 1)))
       IN  /\ proom' = <<res.room>>
           /\ presult' = <<[gameComplete |-> roundStatus.gameComplete,
                            winningTeam |-> roundStatus.winningTeam,
                            pointsAwarded |-> roundStatus.pointsAwarded,
                            teamATricks |-> roundStatus.teamATricks,
                            teamBTricks |-> roundStatus.teamBTricks,
                            defendingTeam |-> roundStatus.defendingTeam,
                            msgs |-> res.msgs]>>
           /\ pdeals' = [pdeals EXCEPT !.awards =
                            Append(@, [team |-> roundStatus.winningTeam,
                                       points |-> roundStatus.pointsAwarded])]
    /\ UNCHANGED <<phand, ptrick, ptrump, serverVars>>

NextScoring ==
    \/ StartMatch
    \/ DealNext
    \/ ChooseTrump
    \/ \E a \in 0..(tricksExpected - 1), w \in Seats : ScoreLastTrick(a, w)

SpecScoring == InitScoring /\ [][NextScoring]_vars

(***************************************************************************)
(* Properties.                                                             *)
(***************************************************************************)
Sent(ev) == \E m \in out : m.ev = ev

PhaseEdges ==
    {<<"waiting", "trump_selection">>, <<"trump_selection", "playing">>,
     <<"playing", "trump_selection">>, <<"playing", "completed">>,
     <<"trump_selection", "paused">>, <<"playing", "paused">>,
     <<"paused", "trump_selection">>, <<"paused", "playing">>}

\* C1: under any sequence of events, the phase of a room changes only along
\* the edges waiting->trump_selection, trump_selection->playing,
\* playing->trump_selection, playing->completed, trump_selection->paused,
\* playing->paused, paused->trump_selection and paused->playing.
C1_PhaseEdges ==
    [][\A r \in RoomIds :
         (rooms[r].live /\ rooms'[r].live /\ rooms'[r].gameState # rooms[r].gameState)
         => <<rooms[r].gameState, rooms'[r].gameState>> \in PhaseEdges]_vars

\* A room that was paused during play has been resumed into play.
C1_Witness ==
    \E r \in RoomIds :
        /\ rooms[r].live
        /\ rooms[r].gameState = "playing"
        /\ pausedFrom[r] = "playing"
        /\ Sent("gameResumed")

\* C2: a room in waiting moves to trump_selection in the step that brings
\* the fourth connected seat, by a fresh join or by a join flagged as
\* reconnection: no reachable state is in waiting with four connected seats.
C2_StartsAtFour ==
    \A r \in RoomIds :
        (rooms[r].live /\ rooms[r].gameState = "waiting")
        => Cardinality({i \in Seats : rooms[r].players[i].occ
                                       /\ rooms[r].players[i].connected}) < NumSeats

\* The seat, in room r, of the player whose disconnect the step processes.
LeavingSeats(s, r) ==
    {i \in Seats : /\ sockOpen[s] /\ ~sockOpen'[s]
                   /\ playerSockets[s] = r
                   /\ rooms[r].live
                   /\ rooms[r].players[i].occ
                   /\ rooms[r].players[i].id = s}

\* C3: when the disconnect of a seated player is processed for a room in
\* trump_selection or playing, the room is paused after the step, even if
\* the three other seats stay connected.
C3_DisconnectPauses ==
    [][\A s \in Sockets, r \in RoomIds :
         (LeavingSeats(s, r) # {} /\ rooms[r].gameState \in {"trump_selection", "playing"})
         => rooms'[r].gameState = "paused"]_vars

\* One of four seats has disconnected during trump selection, and the room
\* is paused.
C3_Witness ==
    \E r \in RoomIds :
        /\ rooms[r].live
        /\ rooms[r].gameState = "paused"
        /\ pausedFrom[r] = "trump_selection"
        /\ Sent("gameInterrupted")
        /\ Cardinality({i \in Seats : rooms[r].players[i].occ
                                       /\ rooms[r].players[i].connected}) = NumSeats - 1

\* C4: a room leaves paused only in a step after which all four seats are
\* connected, and it enters the phase it had when it was paused.
C4_ResumeRestores ==
    [][\A r \in RoomIds :
         (rooms[r].live /\ rooms'[r].live
          /\ rooms[r].gameState = "paused" /\ rooms'[r].gameState # "paused")
         => /\ \A i \in Seats : rooms'[r].players[i].occ /\ rooms'[r].players[i].connected
            /\ rooms'[r].gameState = pausedFrom[r]]_vars

\* C5: in every reachable state with phase paused, fewer than four seats
\* are connected, whichever join path restores the fourth connection.
C5_PausedMeansAbsent ==
    \A r \in RoomIds :
        (rooms[r].live /\ rooms[r].gameState = "paused")
        => Cardinality({i \in Seats : rooms[r].players[i].occ
                                       /\ rooms[r].players[i].connected}) < NumSeats

\* C6: a player who disconnects and, before eviction, rejoins under the same
\* name flagged as reconnection has the same seat, team and hand slots, and
\* the room has the trump, trick, current seat, tricksWon, scores and (once
\* four seats are connected) phase it had just before the disconnect,
\* whatever callback fired during the absence.
C6_RoundTrip ==
    [][\A r \in RoomIds, i \in Seats :
         (/\ leftAt[r][i] # <<>>
          /\ rooms[r].live /\ rooms'[r].live
          /\ rooms[r].players[i].occ /\ ~rooms[r].players[i].connected
          /\ rooms'[r].players[i].occ /\ rooms'[r].players[i].connected
          /\ rooms'[r].players[i].name = leftAt[r][i][1].name)
         => /\ rooms'[r].players[i].team = leftAt[r][i][1].team
            /\ rooms'[r].players[i].hand = leftAt[r][i][1].hand
            /\ rooms'[r].trump = leftAt[r][i][1].trump
            /\ rooms'[r].currentTrick = leftAt[r][i][1].currentTrick
            /\ rooms'[r].currentPlayerIndex = leftAt[r][i][1].currentPlayerIndex
            /\ rooms'[r].tricksWon = leftAt[r][i][1].tricksWon
            /\ rooms'[r].scores = leftAt[r][i][1].scores
            /\ (\A j \in Seats : rooms'[r].players[j].occ /\ rooms'[r].players[j].connected)
               => rooms'[r].gameState = leftAt[r][i][1].gameState]_vars

\* C7: selectTrump changes a room only when the room is in trump_selection
\* and the sender holds the current (trump-selector) seat; from any other
\* sender it is rejected with an error and leaves trump, phase, hands, deck
\* and current seat unchanged.
C7_OnlySelector ==
    [][\A s \in Sockets, r \in RoomIds, trump \in TrumpInputs :
         (/\ ~(/\ rooms[r].live
               /\ rooms[r].gameState = "trump_selection"
               /\ rooms[r].players[rooms[r].currentPlayerIndex].occ
               /\ rooms[r].players[rooms[r].currentPlayerIndex].id = s)
          /\ SelectTrump(s, r, trump))
         => /\ err'.to = s
            /\ err'.msg # ""
            /\ rooms'[r].trump = rooms[r].trump
            /\ rooms'[r].gameState = rooms[r].gameState
            /\ rooms'[r].deck = rooms[r].deck
            /\ rooms'[r].currentPlayerIndex = rooms[r].currentPlayerIndex
            /\ \A i \in Seats : rooms'[r].players[i].hand = rooms[r].players[i].hand]_vars

\* A seat that is not the selector's has sent selectTrump during trump
\* selection and has been answered with the turn error.
C7_Witness ==
    /\ err.msg = "Not your turn to select trump"
    /\ \E r \in RoomIds, i \in Seats :
          /\ rooms[r].live
          /\ rooms[r].gameState = "trump_selection"
          /\ rooms[r].players[i].occ
          /\ rooms[r].players[i].id = err.to
          /\ i # rooms[r].currentPlayerIndex

\* C8: room.trump is at all times null or one of the four suits; a
\* selectTrump whose trump value is missing, null or no suit does not move
\* the room to playing.
C8_TrumpIsSuitOrNull ==
    \A r \in RoomIds :
        rooms[r].live => rooms[r].trump \in {"Hearts", "Diamonds", "Clubs", "Spades", NullTrump}

\* C9: trump is non-null exactly when the phase is playing, or paused after
\* having been entered from playing.
C9_TrumpIffPlaying ==
    \A r \in RoomIds :
        rooms[r].live =>
            (rooms[r].trump # NullTrump
             <=> \/ rooms[r].gameState = "playing"
                 \/ rooms[r].gameState = "paused" /\ pausedFrom[r] = "playing")

NonNullSlots(hand) == {i \in 0..(Len(hand) - 1) : hand[i + 1] # Null}
LeadSuitSlots(hand, trick) ==
    {i \in NonNullSlots(hand) : SuitOf(hand[i + 1]) = SuitOf(trick[1].card)}
PlayableSlots(hand, trick) ==
    IF Len(trick) = 0 THEN NonNullSlots(hand)
    ELSE IF LeadSuitSlots(hand, trick) # {} THEN LeadSuitSlots(hand, trick)
    ELSE NonNullSlots(hand)

\* C10: for every hand and every trick of 0 to 3 entries, getPlayableCards
\* returns all non-null slots when the trick is empty, exactly the slots of
\* the lead-suit cards (trump or not) when the hand holds one, and all
\* non-null slots otherwise.
C10_PlayableCards ==
    presult # <<>> =>
        /\ {presult[1][k] : k \in 1..Len(presult[1])} = PlayableSlots(phand, ptrick)
        /\ Len(presult[1]) = Cardinality(PlayableSlots(phand, ptrick))

\* The function was applied to a hand that holds a lead-suit card, a trump
\* card of another suit and an empty slot.
C10_Witness ==
    /\ presult # <<>>
    /\ Len(ptrick) > 0
    /\ LeadSuitSlots(phand, ptrick) # {}
    /\ \E i \in NonNullSlots(phand) :
          SuitOf(phand[i + 1]) = ptrump /\ i \notin LeadSuitSlots(phand, ptrick)
    /\ \E k \in 1..Len(phand) : phand[k] = Null

\* The slot indices getPlayableCards advertises to the seat at its turn.
AdvertisedSlots(room, i) ==
    LET playable == getPlayableCards(room.players[i].hand, room.currentTrick, room.trump)
    IN  {playable[k] : k \in 1..Len(playable)}

\* C11: for the current seat of a room in playing, a playCard with slot
\* index i is accepted (no error, the card joins the trick) if and only if i
\* is one of the indices getPlayableCards returns for the seat's hand.
C11_CheckMatchesAdvertised ==
    [][\A s \in Sockets, r \in RoomIds, cardIndex \in 0..HandSize :
         (/\ rooms[r].live
          /\ rooms[r].gameState = "playing"
          /\ rooms[r].players[rooms[r].currentPlayerIndex].occ
          /\ rooms[r].players[rooms[r].currentPlayerIndex].id = s
          /\ PlayCard(s, r, cardIndex))
         => (err' = NoError <=> cardIndex \in AdvertisedSlots(rooms[r], rooms[r].currentPlayerIndex))]_vars

\* The place of a card's rank in the order 7 < 8 < 9 < 10 < J < Q < K < A.
RankPlace(card) == CHOOSE i \in 1..Len(ranks) : ranks[i] = RankOf(card)
TrumpEntries == {k \in 1..Len(ptrick) : SuitOf(ptrick[k].card) = ptrump}
LeadEntries == {k \in 1..Len(ptrick) : SuitOf(ptrick[k].card) = SuitOf(ptrick[1].card)}
Contenders == IF TrumpEntries # {} THEN TrumpEntries ELSE LeadEntries

\* C12: for a trick of four distinct cards and a trump suit, getTrickWinner
\* returns exactly one entry of the trick: the one with the highest-ranked
\* trump card when the trick holds a trump card, otherwise the one with the
\* highest-ranked card of the lead suit; a card that is neither trump nor of
\* the lead suit does not win.
C12_TrickWinner ==
    presult # <<>> =>
        /\ Cardinality({k \in 1..Len(ptrick) : ptrick[k] = presult[1]}) = 1
        /\ \E k \in Contenders :
              /\ presult[1] = ptrick[k]
              /\ \A j \in Contenders : RankPlace(ptrick[j].card) <= RankPlace(ptrick[k].card)

\* The function was applied to a trick led in a suit that is not trump, in
\* which a trump card was played and a card of another suit outranks it.
C12_Witness ==
    /\ presult # <<>>
    /\ Len(ptrick) = NumSeats
    /\ TrumpEntries # {}
    /\ 1 \notin TrumpEntries
    /\ \E j \in 1..Len(ptrick) :
          j \notin TrumpEntries /\ RankPlace(ptrick[j].card) > RankPlace(presult[1].card)

TricksSum(room) == room.tricksWon[0] + room.tricksWon[1] + room.tricksWon[2] + room.tricksWon[3]
ScoreSum(room) == room.scores.teamA + room.scores.teamB

\* The step plays the fourth card of a trick of room r, and resolves it.
TrickResolved(r) ==
    /\ rooms[r].live /\ rooms'[r].live
    /\ rooms[r].gameState = "playing"
    /\ Len(rooms[r].currentTrick) = NumSeats - 1
    /\ rooms'[r].currentTrick = <<>>

\* The step resolves the last trick of a deal of room r.
DealEnds(r) == TrickResolved(r) /\ TricksSum(rooms[r]) = tricksExpected - 1

\* C13: the four tricksWon counters sum to at most 8 in every state; they
\* change only when a trick is resolved, by one trick, and the resolution of
\* the eighth trick either leaves the sum at 8 (match over) or resets it to 0
\* (next deal); the deal is scored once, in that step, and no other step
\* changes the scores.
C13_EightTricks ==
    [][\A r \in RoomIds :
         /\ rooms[r].live => TricksSum(rooms[r]) <= tricksExpected
         /\ rooms'[r].live => TricksSum(rooms'[r]) <= tricksExpected
         /\ (rooms[r].live /\ rooms'[r].live) =>
               /\ TrickResolved(r) =>
                     \/ TricksSum(rooms'[r]) = TricksSum(rooms[r]) + 1
                     \/ DealEnds(r) /\ TricksSum(rooms'[r]) = 0
               /\ rooms'[r].tricksWon # rooms[r].tricksWon => TrickResolved(r)
               /\ TricksSum(rooms'[r]) = tricksExpected =>
                     (rooms'[r].gameState = "completed"
                      /\ (DealEnds(r) \/ rooms[r].tricksWon = rooms'[r].tricksWon))
               /\ DealEnds(r) =>
                     /\ ScoreSum(rooms'[r]) - ScoreSum(rooms[r]) \in 0..2
                     /\ Cardinality({m \in out' : m.ev \in {"roundComplete", "gameOver"}}) = 1
               /\ rooms'[r].scores # rooms[r].scores => DealEnds(r)]_vars

\* The eighth trick of a deal has been resolved: the deal was scored, and
\* the counters are back at zero for the next deal.
C13_Witness ==
    \E r \in RoomIds :
        /\ rooms[r].live
        /\ Sent("roundComplete")
        /\ rooms[r].gameState = "trump_selection"
        /\ TricksSum(rooms[r]) = 0
        /\ ScoreSum(rooms[r]) > 0

\* The team of a seat: seats 0 and 2 against seats 1 and 3.
TeamOfSeat(i) == IF i \in {0, 2} THEN "A" ELSE "B"

\* The points the scoring rule gives a team that won mine tricks against
\* theirs in a deal where defending is the team that did not choose trump.
AwardFor(team, mine, theirs, defending) ==
    IF mine > theirs
    THEN (IF team = defending /\ mine = tricksExpected THEN 2 ELSE 1)
    ELSE 0

\* C14: at the end of a deal the team with more tricks gains 2 points when
\* it is the defending team and won all 8 tricks, and 1 point in every other
\* majority case (an 8-0 sweep by the trump-selecting team included); on a
\* 4-4 split no score changes, and the losing team's score never changes.
C14_Award ==
    [][\A a \in 0..(tricksExpected - 1), w \in Seats :
         ScoreLastTrick(a, w) =>
            LET teamATricks == a + (IF TeamOfSeat(w) = "A" THEN 1 ELSE 0)
                teamBTricks == tricksExpected - teamATricks
                defending == IF TeamOfSeat(proom[1].trumpSelector) = "A" THEN "B" ELSE "A"
            IN  /\ proom'[1].scores.teamA =
                      proom[1].scores.teamA + AwardFor("A", teamATricks, teamBTricks, defending)
                /\ proom'[1].scores.teamB =
                      proom[1].scores.teamB + AwardFor("B", teamBTricks, teamATricks, defending)]_vars

\* A deal has ended in an 8-0 sweep by the team that chose trump, for one
\* point.
C14_Witness ==
    /\ presult # <<>>
    /\ presult[1].teamATricks = tricksExpected
    /\ presult[1].defendingTeam = "B"
    /\ presult[1].winningTeam = "A"
    /\ presult[1].pointsAwarded = 1
    /\ proom[1].scores.teamA = pdeals.start.teamA + 1

\* The points the deals of a history have awarded to a team.
AwardedTo(team, awards) ==
    LET F[k \in 0..Len(awards)] ==
            IF k = 0 THEN 0
            ELSE F[k - 1] + (IF awards[k].team = team THEN awards[k].points ELSE 0)
    IN  F[Len(awards)]

\* Three deals won 1 point each by team A, then a deal won 2 points by
\* team A (all 8 tricks, defending).
ThreeMajoritiesAndASweep ==
    <<[team |-> "A", points |-> 1], [team |-> "A", points |-> 1],
      [team |-> "A", points |-> 1], [team |-> "A", points |-> 2]>>

\* C15: within a match no score decreases or is reset; a score changes only
\* in the step that ends a deal, and each score is the sum of the awards of
\* the deals so far: after three majority deals and a defending 8-0 sweep by
\* team A from the start of a match, team A has 5 points, the match is not
\* complete and the phase is trump_selection.
C15_ScoresAccumulate ==
    [][/\ proom'[1].scores.teamA >= proom[1].scores.teamA
       /\ proom'[1].scores.teamB >= proom[1].scores.teamB
       /\ proom'[1].scores # proom[1].scores =>
             /\ proom[1].gameState = "playing"
             /\ Len(pdeals'.awards) = Len(pdeals.awards) + 1
       /\ proom'[1].scores.teamA = pdeals'.start.teamA + AwardedTo("A", pdeals'.awards)
       /\ proom'[1].scores.teamB = pdeals'.start.teamB + AwardedTo("B", pdeals'.awards)
       /\ (/\ pdeals'.start = [teamA |-> 0, teamB |-> 0]
           /\ pdeals'.awards = ThreeMajoritiesAndASweep
           /\ pdeals.awards # pdeals'.awards) =>
             /\ proom'[1].scores = [teamA |-> 5, teamB |-> 0]
             /\ proom'[1].gameState = "trump_selection"]_vars

\* A match has gone from its start through three majority deals and a
\* defending sweep by team A, and the fifth deal has been dealt.
C15_Witness ==
    /\ proom # <<>>
    /\ pdeals.start = [teamA |-> 0, teamB |-> 0]
    /\ pdeals.awards = ThreeMajoritiesAndASweep
    /\ presult # <<>>
    /\ presult[1].teamATricks = tricksExpected
    /\ presult[1].defendingTeam = "A"
    /\ ~presult[1].gameComplete
    /\ proom[1].scores.teamA = 5
    /\ Len(proom[1].players[proom[1].currentPlayerIndex].hand) = SelectorCards

AtTarget(room) == room.scores.teamA >= targetScore \/ room.scores.teamB >= targetScore

\* C16: a room enters completed exactly in the step that ends a deal with a
\* score at or above 10; a completed room has a score at or above 10; and
\* while a completed room exists, no join, reconnect, disconnect, selectTrump
\* or playCard changes its phase, scores, tricksWon or hands.
C16_CompletedIsTerminal ==
    [][\A r \in RoomIds :
         /\ (rooms[r].live /\ rooms[r].gameState = "completed") => AtTarget(rooms[r])
         /\ (rooms'[r].live /\ rooms'[r].gameState = "completed") => AtTarget(rooms'[r])
         /\ (rooms[r].live /\ rooms'[r].live) =>
               /\ (rooms[r].gameState # "completed" /\ rooms'[r].gameState = "completed")
                     => DealEnds(r)
               /\ (DealEnds(r) /\ AtTarget(rooms'[r])) => rooms'[r].gameState = "completed"
               /\ rooms[r].gameState = "completed" =>
                     /\ rooms'[r].gameState = "completed"
                     /\ rooms'[r].scores = rooms[r].scores
                     /\ rooms'[r].tricksWon = rooms[r].tricksWon
                     /\ \A i \in Seats : rooms'[r].players[i].hand = rooms[r].players[i].hand]_vars

\* A seat of a completed room has disconnected, and the room is still
\* completed.
C16_Witness ==
    \E r \in RoomIds :
        /\ rooms[r].live
        /\ rooms[r].gameState = "completed"
        /\ Sent("playerLeft")
        /\ \E i \in Seats : rooms[r].players[i].occ /\ ~rooms[r].players[i].connected

\* The teams whose score is at or above the target.
TeamsAtTarget(room) ==
    {t \in Teams : (IF t = "A" THEN room.scores.teamA ELSE room.scores.teamB) >= targetScore}

\* The winners the gameOver notifications of the last play announce.
Announced == {m.msg : m \in {n \in presult[1].msgs : n.ev = "gameOver"}}

\* C17: when a deal completes the match, exactly one team has a score at or
\* above 10, it is the team that was awarded points in that deal, and
\* gameOver announces that team, never 'Tie'.
C17_WinnerReachedTarget ==
    (presult # <<>> /\ presult[1].gameComplete) =>
        /\ proom[1].gameState = "completed"
        /\ TeamsAtTarget(proom[1]) = {presult[1].winningTeam}
        /\ presult[1].pointsAwarded > 0
        /\ Announced = {"Team " \o presult[1].winningTeam}

\* A match has been completed by the team that was level with the other, one
\* point from the target, before the deal.
C17_Witness ==
    /\ presult # <<>>
    /\ presult[1].gameComplete
    /\ pdeals.start = [teamA |-> MatchPointScore, teamB |-> MatchPointScore]
    /\ Len(pdeals.awards) > 1
    /\ proom[1].scores.teamB = MatchPointScore
    /\ proom[1].scores.teamA = targetScore
    /\ Announced = {"Team A"}

\* C18: when a deal ends without completing the match, the trump selector
\* of the new deal is the seat after the ended deal's trump selector, that
\* seat is also the current seat, tricksWon is all zeros, currentTrick is
\* empty and trump is null.
C18_SelectorRotates ==
    [][\A r \in RoomIds :
         (DealEnds(r) /\ rooms'[r].gameState # "completed") =>
            /\ rooms'[r].trumpSelector = (rooms[r].trumpSelector + 1) % NumSeats
            /\ rooms'[r].currentPlayerIndex = rooms'[r].trumpSelector
            /\ rooms'[r].tricksWon = [i \in Seats |-> 0]
            /\ rooms'[r].currentTrick = <<>>
            /\ rooms'[r].trump = NullTrump]_vars

\* The cards a hand holds (its non-null slots), and how many slots hold one.
CardsHeld(hand) == {hand[k] : k \in {j \in 1..Len(hand) : hand[j] # Null}}
CardCount(hand) == Cardinality({j \in 1..Len(hand) : hand[j] # Null})

\* C19: in every state with phase trump_selection the trump selector (the
\* current seat) holds exactly 4 cards and every other seat holds no card,
\* also between the end of a deal and the deferred dealing of the next one.
C19_SelectorHoldsFour ==
    \A r \in RoomIds :
        (rooms[r].live /\ rooms[r].gameState = "trump_selection") =>
            \A i \in Seats :
                CardCount(rooms[r].players[i].hand) =
                    (IF i = rooms[r].currentPlayerIndex THEN SelectorCards ELSE 0)

\* C20: immediately after an accepted selectTrump each of the four seats
\* holds exactly 8 cards, the selector's slots 0..3 hold the 4 cards it held
\* before and its slots 4..7 hold 4 further cards, the deck is empty, and the
\* 32 cards of the four hands are pairwise distinct.
C20_FullDeal ==
    [][\A r \in RoomIds :
         (/\ rooms[r].live /\ rooms'[r].live
          /\ rooms[r].gameState = "trump_selection"
          /\ rooms'[r].gameState = "playing") =>
            LET sel == rooms[r].currentPlayerIndex IN
            /\ \A i \in Seats : /\ Len(rooms'[r].players[i].hand) = HandSize
                                /\ CardCount(rooms'[r].players[i].hand) = HandSize
            /\ CardCount(rooms[r].players[sel].hand) = SelectorCards
            /\ SubSeq(rooms'[r].players[sel].hand, 1, SelectorCards) = rooms[r].players[sel].hand
            /\ rooms'[r].deck = <<>>
            /\ Cardinality(UNION {CardsHeld(rooms'[r].players[i].hand) : i \in Seats})
                  = NumSeats * HandSize]_vars


\* The entries of a trick that contend for it: the entries of the trump suit
\* when there is one, otherwise the entries of the suit led.
ContendersOf(trick, trump) ==
    LET trumps == {k \in 1..Len(trick) : SuitOf(trick[k].card) = trump}
    IN  IF trumps # {} THEN trumps
        ELSE {k \in 1..Len(trick) : SuitOf(trick[k].card) = SuitOf(trick[1].card)}

\* The seat that wins a trick by the trick-resolution rule.
RuleWinner(trick, trump) ==
    LET best == CHOOSE k \in ContendersOf(trick, trump) :
                    \A j \in ContendersOf(trick, trump) :
                        RankPlace(trick[j].card) <= RankPlace(trick[k].card)
    IN  trick[best].playerIndex

\* The trick of room r once the current seat's slot cardIndex has joined it.
TrickWith(r, cardIndex) ==
    Append(rooms[r].currentTrick,
           [playerIndex |-> rooms[r].currentPlayerIndex,
            card |-> CardAt(rooms[r].players[rooms[r].currentPlayerIndex].hand, cardIndex)])

\* The step is an accepted playCard of the fourth card of a trick of room r.
FourthCardAccepted(s, r, cardIndex) ==
    /\ rooms[r].live
    /\ rooms[r].gameState = "playing"
    /\ Len(rooms[r].currentTrick) = NumSeats - 1
    /\ PlayCard(s, r, cardIndex)
    /\ err' = NoError

\* C21 as stated: when the fourth card of a trick is accepted, in that step
\* the winner by the trick-resolution rule has its tricksWon counter raised
\* by exactly 1 and no other counter changes, currentTrick becomes empty,
\* and, unless the trick ended the deal, the current seat becomes the
\* winner's seat.
C21_WinnerCounted ==
    [][\A s \in Sockets, r \in RoomIds, cardIndex \in 0..HandSize :
         FourthCardAccepted(s, r, cardIndex) =>
            LET w == RuleWinner(TrickWith(r, cardIndex), rooms[r].trump) IN
            /\ rooms'[r].tricksWon = [rooms[r].tricksWon EXCEPT ![w] = @ + 1]
            /\ rooms'[r].currentTrick = <<>>
            /\ ~DealEnds(r) => rooms'[r].currentPlayerIndex = w]_vars

\* C21, amended: when the fourth card of a trick is accepted, currentTrick
\* becomes empty in that step; the winner by the trick-resolution rule has
\* its tricksWon counter raised by exactly 1 and no other counter changes,
\* except that the trick that ends a deal without completing the match
\* leaves all four counters at zero; and, unless the trick ended the deal,
\* the current seat becomes the winner's seat.
C21_TrickResolution ==
    [][\A s \in Sockets, r \in RoomIds, cardIndex \in 0..HandSize :
         FourthCardAccepted(s, r, cardIndex) =>
            LET w == RuleWinner(TrickWith(r, cardIndex), rooms[r].trump) IN
            /\ rooms'[r].tricksWon =
                  (IF DealEnds(r) /\ rooms'[r].gameState # "completed"
                   THEN [i \in Seats |-> 0]
                   ELSE [rooms[r].tricksWon EXCEPT ![w] = @ + 1])
            /\ rooms'[r].currentTrick = <<>>
            /\ ~DealEnds(r) => rooms'[r].currentPlayerIndex = w]_vars

\* A trick has been resolved within a deal by the seat that led it, which
\* had won the trick before: that seat, and not the seat that played the
\* fourth card, is the current seat, and the next-trick callback is pending.
C21_Witness ==
    \E r \in RoomIds :
        /\ rooms[r].live
        /\ rooms[r].gameState = "playing"
        /\ Sent("trickComplete")
        /\ timers[r] = <<"nextTrick">>
        /\ rooms[r].currentTrick = <<>>
        /\ rooms[r].currentPlayerIndex = rooms[r].lastTrickWinner
        /\ rooms[r].tricksWon[rooms[r].currentPlayerIndex] >= 2
        /\ \E m \in out : m.ev = "cardPlayed"

\* Connection s holds the current seat of room r.
HoldsCurrentSeat(s, r) ==
    /\ rooms[r].players[rooms[r].currentPlayerIndex].occ
    /\ rooms[r].players[rooms[r].currentPlayerIndex].id = s

\* The cases in which selectTrump is to be rejected: wrong phase, or the
\* sender is not seated in the room or not at its current seat.
TrumpRefused(s, r) ==
    \/ ~rooms[r].live
    \/ rooms[r].gameState # "trump_selection"
    \/ ~HoldsCurrentSeat(s, r)

\* The cases in which playCard is to be rejected: wrong phase, the sender is
\* not seated in the room or not at its current seat, the slot is out of
\* range or already played, or the card breaks the follow-suit rule.
PlayRefused(s, r, cardIndex) ==
    \/ ~rooms[r].live
    \/ rooms[r].gameState # "playing"
    \/ ~HoldsCurrentSeat(s, r)
    \/ cardIndex \notin PlayableSlots(rooms[r].players[rooms[r].currentPlayerIndex].hand,
                                     rooms[r].currentTrick)

\* The step changes no room, schedules nothing, notifies nobody, and leaves
\* one error for connection s.
RefusalTo(s) ==
    /\ rooms' = rooms
    /\ playerSockets' = playerSockets
    /\ timers' = timers
    /\ out' = out
    /\ err'.to = s
    /\ err'.msg # ""

\* What every selectTrump and playCard step leaves alone, accepted or not;
\* an accepted one counts in used, a rejected one leaves an error.
GameEventFrame ==
    /\ err = NoError
    /\ used' # used \/ err' # err
    /\ sockOpen' = sockOpen
    /\ pausedFrom' = pausedFrom
    /\ leftAt' = leftAt
    /\ used'.joins = used.joins
    /\ used'.disconnects = used.disconnects

\* C22: every rejected selectTrump or playCard (wrong phase, sender not
\* seated or not the current seat, slot out of range or already played, card
\* illegal under follow-suit) leaves the whole room state unchanged and
\* produces exactly one error notification, addressed to the sender only.
C22_RejectionsChangeNothing ==
    [][GameEventFrame =>
         \A s \in Sockets, r \in RoomIds :
            /\ \A trump \in TrumpInputs :
                  (TrumpRefused(s, r) /\ SelectTrump(s, r, trump)) => RefusalTo(s)
            /\ \A cardIndex \in 0..HandSize :
                  (PlayRefused(s, r, cardIndex) /\ PlayCard(s, r, cardIndex)) => RefusalTo(s)]_vars

\* The current seat has played a card of another suit while holding a card
\* of the suit led, and has been answered with the follow-suit error.
C22_Witness ==
    \E r \in RoomIds :
        /\ rooms[r].live
        /\ rooms[r].gameState = "playing"
        /\ rooms[r].currentTrick # <<>>
        /\ HoldsCurrentSeat(err.to, r)
        /\ LeadSuitSlots(rooms[r].players[rooms[r].currentPlayerIndex].hand,
                         rooms[r].currentTrick) # {}
        /\ err.msg = "Must follow suit! You have "
                       \o SuitOf(rooms[r].currentTrick[1].card) \o " cards."

\* C23: in every state every occupied seat's team field is the team of its
\* seat index: team A at seats 0 and 2, team B at seats 1 and 3.
C23_TeamOfSeat ==
    \A r \in RoomIds : rooms[r].live =>
        \A i \in Seats : rooms[r].players[i].occ =>
            rooms[r].players[i].team = (IF i = 0 \/ i = 2 THEN "A" ELSE "B")

\* A seat of team B has been taken again by a reconnection from a new
\* connection, while a seat of team A is occupied.
C23_Witness ==
    \E r \in RoomIds, i \in {1, 3}, j \in {0, 2} :
        /\ rooms[r].live
        /\ Sent("gameInProgress")
        /\ rooms[r].players[i].id > NumSeats
        /\ rooms[r].players[i].occ
        /\ rooms[r].players[i].connected
        /\ rooms[r].players[i].team = "B"
        /\ rooms[r].players[j].occ
        /\ rooms[r].players[j].team = "A"

\* The seats of a team, and the seat an ordinary join asking for a team is
\* to get: the lowest empty seat of that team, else of the other team.
SeatsOfTeam(team) == IF team = "A" THEN {0, 2} ELSE {1, 3}
EmptySeats(room, team) == {i \in SeatsOfTeam(team) : ~room.players[i].occ}
LowestOf(seats) == CHOOSE i \in seats : \A j \in seats : i <= j
ExpectedSeat(room, team) ==
    IF EmptySeats(room, team) # {} THEN LowestOf(EmptySeats(room, team))
    ELSE LowestOf(EmptySeats(room, IF team = "A" THEN "B" ELSE "A"))

\* Who sits where in a room.
Seating(room) ==
    [i \in Seats |-> [occ |-> room.players[i].occ, id |-> room.players[i].id,
                      name |-> room.players[i].name, team |-> room.players[i].team,
                      connected |-> room.players[i].connected]]

\* A join that is not flagged as a reconnection, or whose name no seat of
\* the room carries, is an ordinary join.
OrdinaryJoin(s, r, isReconnect) ==
    \/ ~isReconnect
    \/ \A i \in Seats : ~(rooms[r].players[i].occ /\ rooms[r].players[i].name = NameOf(s))

\* What every joinRoom step leaves alone, accepted or not.
JoinFrame ==
    /\ err = NoError
    /\ used' # used \/ err' # err
    /\ sockOpen' = sockOpen
    /\ timers' = timers
    /\ pausedFrom' = pausedFrom
    /\ used'.plays = used.plays
    /\ used'.trumps = used.trumps
    /\ used'.disconnects = used.disconnects

\* C24: an ordinary join asking for team T that is accepted is seated at
\* the lowest empty seat of T, or, when both seats of T are occupied, at the
\* lowest empty seat of the other team, and no other seat changes; when all
\* four seats are occupied, by connected or disconnected players, the join
\* is rejected with the room-full error and no seat changes; a join is
\* rejected as room-full in that case only.
C24_SeatAssignment ==
    [][JoinFrame =>
         \A s \in Sockets, r \in RoomIds, team \in Teams, isReconnect \in BOOLEAN :
            (OrdinaryJoin(s, r, isReconnect) /\ JoinRoom(s, r, NameOf(s), team, isReconnect)) =>
               IF \A i \in Seats : rooms[r].players[i].occ
               THEN /\ err' = Reject(s, "Room is full")
                    /\ Seating(rooms'[r]) = Seating(rooms[r])
               ELSE LET seat == ExpectedSeat(rooms[r], team) IN
                    \/ /\ err' = NoError
                       /\ rooms'[r].live
                       /\ Seating(rooms'[r]) =
                             [Seating(rooms[r]) EXCEPT ![seat] =
                                 [occ |-> TRUE, id |-> s, name |-> NameOf(s),
                                  team |-> TeamOfSeat(seat), connected |-> TRUE]]
                    \/ /\ err' = Reject(s, "Name already taken")
                       /\ Seating(rooms'[r]) = Seating(rooms[r])]_vars

\* A join has been rejected as room-full by a room whose four seats are
\* occupied, one of them by a disconnected player.
C24_Witness ==
    \E r \in RoomIds :
        /\ rooms[r].live
        /\ err.msg = "Room is full"
        /\ \A i \in Seats : rooms[r].players[i].occ /\ rooms[r].players[i].id # err.to
        /\ \E i \in Seats : ~rooms[r].players[i].connected

\* The seats, over all rooms, that carry the id of connection s.
SeatsOf(s) ==
    {p \in RoomIds \X Seats :
        rooms[p[1]].live /\ rooms[p[1]].players[p[2]].occ /\ rooms[p[1]].players[p[2]].id = s}

\* C25: in every state a connection is bound to at most one seat of at most
\* one room: no two seats anywhere carry its id, and while it is connected
\* at its seat the connection-tracking table maps it to that seat's room.
C25_OneSeatPerConnection ==
    \A s \in Sockets :
        /\ Cardinality(SeatsOf(s)) <= 1
        /\ \A p \in SeatsOf(s) :
              rooms[p[1]].players[p[2]].connected => playerSockets[s] = p[1]

\* C26: when the deferred next-trick callback fires on a room that is no
\* longer in phase playing (paused by a disconnection during the delay, for
\* example) or no longer exists, it sends no yourTurn or turnUpdate
\* notification and changes nothing.
C26_NextTrickRechecks ==
    [][\A r \in RoomIds :
         (NextTrickCallback(r) /\ (~rooms[r].live \/ rooms[r].gameState # "playing")) =>
            /\ rooms' = rooms
            /\ \A m \in out' : m.ev \notin {"yourTurn", "turnUpdate"}]_vars

\* C27: the deferred next-deal callback deals the trump-selection cards
\* only to a room that still exists and is still in trump_selection; when
\* the room was destroyed, paused or moved to playing in the interval, the
\* callback changes no hand and no deck, so no hand is re-dealt while the
\* phase is playing.
C27_NextDealRevalidates ==
    [][\A r \in RoomIds :
         (NextDealCallback(r) /\ (~rooms[r].live \/ rooms[r].gameState # "trump_selection")) =>
            /\ rooms'[r].deck = rooms[r].deck
            /\ \A i \in Seats : rooms'[r].players[i].hand = rooms[r].players[i].hand]_vars

\* C28: an accepted playCard of slot i by the current seat appends that
\* seat's card at slot i to currentTrick (which the fourth card of a trick
\* then resolves) and sets slot i to null; every other slot of the hand keeps
\* its index and content, the hand keeps its length of 8 slots, and no other
\* seat's hand changes.
C28_PlayFrame ==
    [][\A s \in Sockets, r \in RoomIds, cardIndex \in 0..HandSize :
         (/\ rooms[r].live
          /\ rooms[r].gameState = "playing"
          /\ HoldsCurrentSeat(s, r)
          /\ PlayCard(s, r, cardIndex)
          /\ err' = NoError) =>
            LET cur == rooms[r].currentPlayerIndex
                hand == rooms[r].players[cur].hand
            IN  /\ rooms'[r].currentTrick =
                      (IF Len(rooms[r].currentTrick) = NumSeats - 1 THEN <<>>
                       ELSE Append(rooms[r].currentTrick,
                                   [playerIndex |-> cur, card |-> hand[cardIndex + 1]]))
                /\ hand[cardIndex + 1] # Null
                /\ rooms'[r].players[cur].hand = [hand EXCEPT ![cardIndex + 1] = Null]
                /\ Len(rooms'[r].players[cur].hand) = HandSize
                /\ \A i \in Seats \ {cur} :
                      rooms'[r].players[i].hand = rooms[r].players[i].hand]_vars

\* What a room holds besides its seats and its last-activity time.
GameOf(room) ==
    [gameState |-> room.gameState, trump |-> room.trump, deck |-> room.deck,
     currentTrick |-> room.currentTrick, currentPlayerIndex |-> room.currentPlayerIndex,
     trumpSelector |-> room.trumpSelector, tricksWon |-> room.tricksWon,
     scores |-> room.scores]

\* C29: a run of the health check either destroys a room that has no
\* connected seat, or leaves the room in place with its phase, trump,
\* currentTrick, current seat, tricksWon and scores unchanged and each seat
\* either untouched or, if it was occupied and disconnected, reset to empty;
\* and no event other than the health check and the cleanup of a finished
\* match empties an occupied seat or gives it to another player.
C29_SweepFrame ==
    [][\A r \in RoomIds :
         /\ CheckRoomHealth(r) =>
               /\ \A q \in RoomIds \ {r} : rooms'[q] = rooms[q]
               /\ \/ ~rooms'[r].live /\ ConnectedCount(rooms[r]) = 0
                  \/ /\ rooms'[r].live
                     /\ GameOf(rooms'[r]) = GameOf(rooms[r])
                     /\ \A i \in Seats :
                           \/ rooms'[r].players[i] = rooms[r].players[i]
                           \/ /\ rooms[r].players[i].occ
                              /\ ~rooms[r].players[i].connected
                              /\ rooms'[r].players[i] = NoPlayer
         /\ (~CheckRoomHealth(r) /\ ~CleanupCallback(r)) =>
               \A i \in Seats :
                  (rooms[r].live /\ rooms[r].players[i].occ) =>
                     /\ rooms'[r].live
                     /\ rooms'[r].players[i].occ
                     /\ rooms'[r].players[i].name = rooms[r].players[i].name
                     /\ rooms'[r].players[i].team = rooms[r].players[i].team]_vars

\* The health check has reset the seat of a disconnected player of a paused
\* game and has left a connected seat with its cards in place.
C29_Witness ==
    \E r \in RoomIds, i \in Seats, j \in Seats :
        /\ rooms[r].live
        /\ Sent("roomCleaned")
        /\ rooms[r].gameState = "paused"
        /\ ~rooms[r].players[i].occ
        /\ rooms[r].players[j].occ
        /\ rooms[r].players[j].connected
        /\ CardCount(rooms[r].players[j].hand) > 0

\* C30: the gameInProgress snapshot sent to a reconnecting seat describes
\* the room as the joinRoom handler leaves it: its phase is the room's phase
\* at the end of the handler, and its turn flag is set, with the seat's
\* playable slots attached, exactly when that seat is the current seat and
\* the room is then in playing, also when the reconnection resumes the game.
C30_SnapshotIsCurrent ==
    [][\A s \in Sockets, r \in RoomIds, team \in Teams :
         (JoinFrame /\ JoinRoom(s, r, NameOf(s), team, TRUE) /\ err' = NoError) =>
            \A m \in out' :
               m.ev = "gameInProgress" =>
                  \E i \in Seats :
                     /\ rooms'[r].players[i].occ
                     /\ rooms'[r].players[i].id = s
                     /\ m.to = s
                     /\ m.st = rooms'[r].gameState
                     /\ m.turn = (rooms'[r].gameState = "playing"
                                  /\ rooms'[r].currentPlayerIndex = i)
                     /\ m.turn => {m.cards[k] : k \in 1..Len(m.cards)} =
                           PlayableSlots(rooms'[r].players[i].hand, rooms'[r].currentTrick)]_vars

\* C31: the trump selector is seat 0 for the first deal of a match, and for
\* every later deal it is the seat after the seat that won the last trick of
\* the preceding deal; in phase trump_selection the recorded trump selector
\* is always the current seat.
C31_SelectorFollowsWinner ==
    [][\A r \in RoomIds :
         /\ (rooms[r].live /\ rooms[r].gameState = "trump_selection") =>
               rooms[r].trumpSelector = rooms[r].currentPlayerIndex
         /\ (rooms'[r].live /\ rooms'[r].gameState = "trump_selection") =>
               rooms'[r].trumpSelector = rooms'[r].currentPlayerIndex
         /\ (/\ rooms'[r].live
             /\ ~rooms[r].live \/ rooms[r].gameState = "waiting"
             /\ rooms'[r].gameState = "trump_selection") =>
               rooms'[r].trumpSelector = 0
         /\ (DealEnds(r) /\ rooms'[r].gameState # "completed") =>
               /\ rooms'[r].gameState = "trump_selection"
               /\ rooms'[r].trumpSelector = (rooms'[r].lastTrickWinner + 1) % NumSeats]_vars

\* C32: in every state whose phase is trump_selection or playing, all four
\* seats of the room are occupied and marked connected.
C32_FourConnectedInGame ==
    \A r \in RoomIds :
        (rooms[r].live /\ rooms[r].gameState \in {"trump_selection", "playing"}) =>
            \A i \in Seats : rooms[r].players[i].occ /\ rooms[r].players[i].connected


\* A game paused by a disconnection has been resumed by the reconnection of
\* that seat from a new connection: the room is in playing again with four
\* connected seats.
C32_Witness ==
    \E r \in RoomIds :
        /\ rooms[r].live
        /\ rooms[r].gameState = "playing"
        /\ pausedFrom[r] = "playing"
        /\ Sent("gameResumed")
        /\ \E i \in Seats : rooms[r].players[i].id > NumSeats
        /\ \A i \in Seats : rooms[r].players[i].occ /\ rooms[r].players[i].connected

\* C33: in every state no two connected seats of the same room carry the
\* same display name.
C33_ConnectedNamesDistinct ==
    \A r \in RoomIds : rooms[r].live =>
        \A i \in Seats, j \in Seats :
            (/\ i # j
             /\ rooms[r].players[i].occ /\ rooms[r].players[i].connected
             /\ rooms[r].players[j].occ /\ rooms[r].players[j].connected) =>
                rooms[r].players[i].name # rooms[r].players[j].name

\* C34: in every state with phase playing the current seat's hand holds at
\* least one card and its legal-play set is not empty, and the entries of
\* the current trick, fewer than four, come from distinct seats in cyclic
\* seat order from the leader, the current seat coming next.
C34_NoDeadEnd ==
    \A r \in RoomIds :
        (rooms[r].live /\ rooms[r].gameState = "playing") =>
            LET cur == rooms[r].currentPlayerIndex
                trick == rooms[r].currentTrick
            IN  /\ CardCount(rooms[r].players[cur].hand) >= 1
                /\ Len(getPlayableCards(rooms[r].players[cur].hand, trick, rooms[r].trump)) >= 1
                /\ Len(trick) < NumSeats
                /\ \A k \in 1..Len(trick) :
                      trick[k].playerIndex = (trick[1].playerIndex + k - 1) % NumSeats
                /\ Len(trick) > 0 => cur = (trick[1].playerIndex + Len(trick)) % NumSeats

(***************************************************************************)
(* A match played through: four players who stay connected, every seat     *)
(* answering its turn with a legal selectTrump or playCard, and the        *)
(* deferred callbacks firing in the order they were scheduled.             *)
(***************************************************************************)
\* The lowest slot the playCard handler accepts from connection s, or Null.
LowestAccepted(room, s) ==
    LET ok == {c \in 0..(HandSize - 1) : PlayError(room, s, c) = ""}
    IN  IF ok = {} THEN Null ELSE CHOOSE c \in ok : \A d \in ok : c <= d

\* selectTrump of a suit by the connection at the current seat.
LiveTrump(r) ==
    /\ rooms[r].live
    /\ NoErrorPending
    /\ rooms[r].gameState = "trump_selection"
    /\ \E i \in 1..NumTrumpSuits :
         LET room == rooms[r]
             s == room.players[room.currentPlayerIndex].id
         IN  /\ TrumpError(room, s) = ""
             /\ rooms' = [rooms EXCEPT ![r] = AcceptTrump(room, SeatOfSocket(room, s), suits[i])]
             /\ out' = {Msg(RoomCast, "trumpSelected", suits[i])}
                       \cup {Msg(rooms'[r].players[j].id, "fullHand", "") :
                               j \in {k \in Seats : room.players[k].occ}}
                       \cup TurnMsgs(rooms'[r], FALSE)
    /\ UNCHANGED <<playerSockets, sockOpen, timers, err, pausedFrom, leftAt, used, pureVars>>

\* playCard of its lowest legal slot by the connection at the current seat;
\* the history pdeals records the award of a deal the play ends.
LivePlay(r) ==
    /\ rooms[r].live
    /\ NoErrorPending
    /\ rooms[r].gameState = "playing"
    /\ \E cardIndex \in {LowestAccepted(rooms[r],
                              rooms[r].players[rooms[r].currentPlayerIndex].id)} \ {Null} :
         \E playerIndex \in {SeatOfSocket(rooms[r],
                              rooms[r].players[rooms[r].currentPlayerIndex].id)} :
         \E res \in {AfterPlay(rooms[r], playerIndex, cardIndex)} :
         \E roundStatus \in
               {checkRoundComplete(ResolveTrick(PutCard(rooms[r], playerIndex, cardIndex)))} :
           /\ rooms' = [rooms EXCEPT ![r] = res.room]
           /\ timers' = IF res.timer = "none" THEN timers
                        ELSE [timers EXCEPT ![r] = Append(timers[r], res.timer)]
           /\ out' = res.msgs
           /\ pdeals' = IF res.timer \in {"nextDeal", "cleanup"}
                        THEN [pdeals EXCEPT !.awards =
                                Append(@, [team |-> roundStatus.winningTeam,
                                           points |-> roundStatus.pointsAwarded])]
                        ELSE pdeals
    /\ UNCHANGED <<playerSockets, sockOpen, err, pausedFrom, leftAt, used,
                   phand, ptrick, ptrump, presult, proom>>

\* A match that has just started: four connected seats, seat 0 selecting.
InitLive ==
    /\ rooms = Registry(SeatedRoom)
    /\ playerSockets = [s \in Sockets |-> IF s <= NumSeats THEN 1 ELSE 0]
    /\ sockOpen = [s \in Sockets |-> TRUE]
    /\ timers = [r \in RoomIds |-> <<>>]
    /\ out = {}
    /\ err = NoError
    /\ pausedFrom = [r \in RoomIds |-> "none"]
    /\ leftAt = [r \in RoomIds |-> [i \in Seats |-> <<>>]]
    /\ used = [joins |-> NumSeats, away |-> 0, trumps |-> 0, plays |-> 0, free |-> 0,
               disconnects |-> 0]
    /\ phand = <<>> /\ ptrick = <<>> /\ ptrump = NullTrump /\ presult = <<>> /\ proom = <<>>
    /\ pdeals = [start |-> SeatedRoom.scores, awards |-> <<>>]

NextLive ==
    \/ \E r \in RoomIds : LiveTrump(r)
    \/ \E r \in RoomIds : LivePlay(r)
    \/ \E r \in RoomIds : NextTrickCallback(r)
    \/ \E r \in RoomIds : NextDealCallback(r)
    \/ \E r \in RoomIds : CleanupCallback(r)

\* The states in which the current seat has a legal selectTrump to send.
TrumpEnabled(r) ==
    /\ rooms[r].live
    /\ NoErrorPending
    /\ rooms[r].gameState = "trump_selection"
    /\ TrumpError(rooms[r], rooms[r].players[rooms[r].currentPlayerIndex].id) = ""

\* The states in which the current seat has a legal playCard to send.
PlayEnabled(r) ==
    /\ rooms[r].live
    /\ NoErrorPending
    /\ rooms[r].gameState = "playing"
    /\ LowestAccepted(rooms[r], rooms[r].players[rooms[r].currentPlayerIndex].id) # Null

\* Every seat whose turn it is eventually acts, and every scheduled callback
\* eventually fires.  The weak fairness of LiveTrump and LivePlay is written
\* out with their enabling conditions TrumpEnabled and PlayEnabled.
FairLive ==
    \A r \in RoomIds :
        /\ ([]<>~TrumpEnabled(r)) \/ ([]<><<LiveTrump(r)>>_vars)
        /\ ([]<>~PlayEnabled(r)) \/ ([]<><<LivePlay(r)>>_vars)
        /\ WF_vars(NextTrickCallback(r))
        /\ WF_vars(NextDealCallback(r))
        /\ WF_vars(CleanupCallback(r))

SpecLive == InitLive /\ [][NextLive]_vars /\ FairLive

\* The room is in trump_selection for its deal number n + 1.
DealOpen(r, n) ==
    rooms[r].live /\ rooms[r].gameState = "trump_selection" /\ Len(pdeals.awards) = n

\* Deal number n + 1 has been scored, and the room is in trump_selection for
\* a new deal or completed.
DealScored(r, n) ==
    /\ Len(pdeals.awards) = n + 1
    /\ rooms[r].live
    /\ rooms[r].gameState \in {"trump_selection", "completed"}

\* C35: when the four players stay connected, every seat whose turn it is
\* eventually sends a legal selectTrump or playCard and the deferred
\* callbacks eventually fire, every deal that has entered trump_selection is
\* eventually scored, the room then being in trump_selection for a new deal
\* or completed.
C35_DealProgress ==
    \A r \in RoomIds : \A n \in 0..targetScore : DealOpen(r, n) ~> DealScored(r, n)

=========================================================================
